---- MODULE Spec2Model ----
(***************************************************************************)
(* A model of pysweep's sweep objects (src/pysweep/sweep_object.py).       *)
(*                                                                         *)
(* A sweep object is a Python iterable whose __iter__ builds a generator   *)
(* (_add_measurement_hooks around the generator of _setter_factory) and    *)
(* whose __next__ resumes it.  The model keeps, for every sweep object,    *)
(* the position at which each of its generators is suspended, and one      *)
(* resumption of the outermost generator is one step of the model.  Every  *)
(* instrument set call, hook call and yielded record is appended to `log`. *)
(***************************************************************************)
EXTENDS Integers, Sequences, FiniteSets, TLC

\* Longest point list a swept parameter is given.
MaxLen == 2

(***************************************************************************)
(* Sweep objects.  1..3 are ParameterSweep objects over three different    *)
(* parameters, 4 and 5 are compound sweep objects, 6 is a bare callable    *)
(* given as a child to the call of a sweep object.                         *)
(***************************************************************************)
ParamNodes == {1, 2, 3}
FuncNode == 6
Nodes == 1 .. 6

NoChildren == [o \in Nodes |-> <<>>]

\* The compositions that are iterated: a name, the outermost object, the
\* class of every object and the _sweep_objects tuple of the compounds.
Shapes ==
  { [name |-> "P", root |-> 1,
     kind |-> [o \in Nodes |-> IF o = 1 THEN "param" ELSE "unused"],
     children |-> NoChildren],
    [name |-> "N2", root |-> 4,
     kind |-> [o \in Nodes |-> IF o \in {1, 2} THEN "param"
                               ELSE IF o = 4 THEN "nest" ELSE "unused"],
     children |-> [NoChildren EXCEPT ![4] = <<1, 2>>]],
    [name |-> "N3", root |-> 4,
     kind |-> [o \in Nodes |-> IF o \in ParamNodes THEN "param"
                               ELSE IF o = 4 THEN "nest" ELSE "unused"],
     children |-> [NoChildren EXCEPT ![4] = <<1, 2, 3>>]],
    [name |-> "Z2", root |-> 4,
     kind |-> [o \in Nodes |-> IF o \in {1, 2} THEN "param"
                               ELSE IF o = 4 THEN "zip" ELSE "unused"],
     children |-> [NoChildren EXCEPT ![4] = <<1, 2>>]],
    [name |-> "Z3", root |-> 4,
     kind |-> [o \in Nodes |-> IF o \in ParamNodes THEN "param"
                               ELSE IF o = 4 THEN "zip" ELSE "unused"],
     children |-> [NoChildren EXCEPT ![4] = <<1, 2, 3>>]],
    \* nested_sweep(zip_sweep(p1, p2), p3)
    [name |-> "NZ", root |-> 5,
     kind |-> [o \in Nodes |-> IF o \in ParamNodes THEN "param"
                               ELSE IF o = 4 THEN "zip"
                               ELSE IF o = 5 THEN "nest" ELSE "unused"],
     children |-> [NoChildren EXCEPT ![4] = <<1, 2>>, ![5] = <<4, 3>>]],
    \* nested_sweep(p1, zip_sweep(p2, p3))
    [name |-> "NZo", root |-> 5,
     kind |-> [o \in Nodes |-> IF o \in ParamNodes THEN "param"
                               ELSE IF o = 4 THEN "zip"
                               ELSE IF o = 5 THEN "nest" ELSE "unused"],
     children |-> [NoChildren EXCEPT ![4] = <<2, 3>>, ![5] = <<1, 4>>]],
    \* zip_sweep(nested_sweep(p1, p2), p3)
    [name |-> "ZN", root |-> 5,
     kind |-> [o \in Nodes |-> IF o \in ParamNodes THEN "param"
                               ELSE IF o = 4 THEN "nest"
                               ELSE IF o = 5 THEN "zip" ELSE "unused"],
     children |-> [NoChildren EXCEPT ![4] = <<1, 2>>, ![5] = <<4, 3>>]],
    \* nested_sweep(nested_sweep(p1, p2), p3)
    [name |-> "NN", root |-> 5,
     kind |-> [o \in Nodes |-> IF o \in ParamNodes THEN "param"
                               ELSE IF o \in {4, 5} THEN "nest" ELSE "unused"],
     children |-> [NoChildren EXCEPT ![4] = <<1, 2>>, ![5] = <<4, 3>>]] }

\* The static point lists given to sweep(parameter, sweep_points): the
\* i-th set point of parameter p is 10*p + i, so that every set point of
\* a run is told apart by its value.
PointList(p, n) == [i \in 1 .. n |-> 10 * p + i]

HookNames == {"after_each", "after_start", "after_end"}

\* The labels a measurement function reports its result under: none (it
\* returns an empty dictionary), a label of its own, or the label of the
\* first parameter.
HookLabels == {"", "m", "p1"}

NoHooks == [o \in Nodes |-> [h \in HookNames |-> <<>>]]

\* The sweep objects a composition is made of.
Used(sh) == {o \in Nodes : sh.kind[o] # "unused"}

\* The hook lists of a run: no hook at all, one measurement function
\* registered on one sweep object of the composition, or two after_end
\* functions on two different objects, reporting under the same label or
\* under two labels.
HookConfigs(sh) ==
  {NoHooks} \cup
  { [NoHooks EXCEPT ![o][h] = << [label |-> l] >>] :
      o \in Used(sh), h \in HookNames, l \in HookLabels } \cup
  { [NoHooks EXCEPT ![oo[1]]["after_end"] = << [label |-> "m"] >>,
                    ![oo[2]]["after_end"] = << [label |-> l] >>] :
      oo \in {x \in Used(sh) \X Used(sh) : x[1] < x[2]}, l \in {"m", "m2"} }

VARIABLES
  shape,              \* name of the composition
  root,               \* the sweep object the consumer iterates
  kind,               \* class of every sweep object
  children,           \* CompoundSweep._sweep_objects
  points,             \* the sequence the point function returns
  measure_functions,  \* BaseSweepObject._measure_functions
  so,                 \* the fields and generator positions of the objects
  log,                \* set calls, hook calls and yielded records, in order
  serial,             \* number of measurement function calls made so far
  pc,                 \* the consumer: "init", "iterating", "done", "stopped"
  merger,             \* a DictMerge object, its input and its result
  writer,             \* a SpyviewWriter object and what it has written
  formatter,          \* a SpyviewFormatter object and what it has written
  storage,            \* a JSONStorage object and the results of output
  measurement         \* a Measurement object and the position of its run

\* What the iteration of a sweep object leaves alone: the composition,
\* and the merger, the writer, the formatter, the storage and the
\* measurement, which it does not touch.
static == <<shape, root, kind, children, points, measure_functions, merger, writer,
            formatter, storage, measurement>>
sweep == <<shape, root, kind, children, points, measure_functions,
           so, log, serial, pc>>
vars == <<shape, root, kind, children, points, measure_functions,
          so, log, serial, pc, merger, writer, formatter, storage, measurement>>

\* No DictMerge object and no SpyviewWriter object are at work.
NoMerger == [pc |-> "idle"]
NoWriter == [pc |-> "idle"]

\* No SpyviewFormatter, JSONStorage or Measurement object is at work.
NoFormatter == [pc |-> "idle"]
NoStorage == [pc |-> "idle"]
NoMeasurement == [pc |-> "idle"]

EmptyMsg == [l \in {} |-> 0]

\* dict.update(e) on d: the keys of e replace those of d.
Update(d, e) == e @@ d

Label(p) == CASE p = 1 -> "p1" [] p = 2 -> "p2" [] OTHER -> "p3"

\* ParameterSweep.log_format
log_format(p, set_value) ==
  Label(p) :> [unit |-> "V", value |-> set_value, independent_parameter |-> TRUE]

\* What a measurement function returns on its n-th call overall (the test
\* suite's MeasureFunction): one entry without the independent flag, or {}.
HookOutput(h, n) ==
  IF h.label = "" THEN EmptyMsg
  ELSE h.label :> [unit |-> "hash", value |-> 100 + n, independent_parameter |-> FALSE]

\* CompoundSweep.__init__ clears is_top_level of every child; every other
\* object keeps the True of BaseSweepObject.__init__.
IsChild(sh, o) ==
  \E c \in Nodes : \E i \in 1 .. Len(sh.children[c]) : sh.children[c][i] = o

\* Variant: the children of a compound stay top level.
InitTopLevel_all(sh, o) == TRUE

InitTopLevel(sh, o) == ~IsChild(sh, o)

\* Python's None, the station and namespace of BaseSweepObject.__init__.
None == 0

\* What set_station and set_namespace are given: None, or one of two
\* stations (namespaces).
Stations == {None, 1, 2}
Namespaces == {None, 1, 2}

\* The IteratorSweep objects NestedSweep._setter_factory builds: level k is
\* _two_product(level k-1, child k), level 1 is the first child itself.
\* "none": never iterated; "new": __iter__ done, generator not started;
\* "inner": suspended at the yield of inner(); "done": exhausted.
FreshLevels == [k \in 2 .. 3 |-> [st |-> "none", result2 |-> EmptyMsg]]

InitObject(sh, o) ==
  [is_top_level |-> InitTopLevel(sh, o),
   station |-> None,
   namespace |-> None,
   pf_calls |-> <<>>,   \* the arguments of every call of the point function
   after_end_msg |-> EmptyMsg,
   hk |-> "none",       \* _param_setter: none, new, loop, end, done
   start |-> TRUE,      \* the local `start` of _add_measurement_hooks
   idx |-> 0,           \* points consumed by ParameterSweep._setter_factory
   zs |-> "new",        \* ZipSweep._setter_factory: new, run, done
   cur |-> 0,           \* the child a chain is iterating
   fmsg |-> EmptyMsg,   \* what the callables of a chain returned
   lev |-> FreshLevels]

\* Variant: `start` outlives the generator and is not set again.
IterSO_keepStart(o, S) ==
  [S EXCEPT !.so[o].hk = "new", !.so[o].idx = 0, !.so[o].cur = 0,
            !.so[o].zs = "new", !.so[o].lev = FreshLevels]

\* BaseSweepObject.__iter__
IterSO(o, S) ==
  [S EXCEPT !.so[o].hk = "new", !.so[o].start = TRUE, !.so[o].idx = 0,
            !.so[o].cur = 0, !.so[o].zs = "new", !.so[o].lev = FreshLevels]

Stop(S) == [S |-> S, stop |-> TRUE, msg |-> EmptyMsg]
Yield(S, m) == [S |-> S, stop |-> FALSE, msg |-> m]

\* One measurement function call: its output and the record of the call.
CallHook(o, name, i, S) ==
  LET n == S.serial + 1
      out == HookOutput(measure_functions[o][name][i], n)
  IN [S |-> [S EXCEPT !.serial = n,
                      !.log = Append(@, [type |-> "hook", node |-> o, kind |-> name,
                                         serial |-> n, out |-> out,
                                         st |-> S.so[o].station,
                                         ns |-> S.so[o].namespace])],
      msg |-> out]

RECURSIVE ExecuteFrom(_, _, _, _, _)
ExecuteFrom(o, name, i, S, msg_all) ==
  IF i > Len(measure_functions[o][name]) THEN [S |-> S, msg |-> msg_all]
  ELSE LET c == CallHook(o, name, i, S)
       IN ExecuteFrom(o, name, i + 1, c.S, Update(msg_all, c.msg))

\* BaseSweepObject._execute_measure_function
ExecuteMeasureFunction(o, name, S) == ExecuteFrom(o, name, 1, S, EmptyMsg)

RECURSIVE GetEndMeasurementMessage(_, _), GetEndChildren(_, _, _, _)
\* the loop over self._sweep_objects of CompoundSweep._get_end_measurement_message
GetEndChildren(o, i, S, msgs) ==
  IF i > Len(children[o]) THEN [S |-> S, msg |-> msgs]
  ELSE LET c == GetEndMeasurementMessage(children[o][i], S)
       IN GetEndChildren(o, i + 1, c.S, Update(msgs, c.msg))

\* Variant: the message is read without being cleared.
GetEndMeasurementMessage_noClear(o, S) ==
  LET own == S.so[o].after_end_msg
  IN IF kind[o] = "param" THEN [S |-> S, msg |-> own]
     ELSE GetEndChildren(o, 1, S, own)

\* BaseSweepObject._get_end_measurement_message and its CompoundSweep override
GetEndMeasurementMessage(o, S) ==
  LET own == S.so[o].after_end_msg
      S1 == [S EXCEPT !.so[o].after_end_msg = EmptyMsg]
  IN IF kind[o] = "param" THEN [S |-> S1, msg |-> own]
     ELSE GetEndChildren(o, 1, S1, own)

\* The call self._point_function(self._station, self._namespace), made
\* when the generator of ParameterSweep._setter_factory is first resumed.
CallPointFunction(o, S) ==
  IF S.so[o].idx = 0
  THEN [S EXCEPT !.so[o].pf_calls =
                   Append(@, [st |-> S.so[o].station, ns |-> S.so[o].namespace])]
  ELSE S

\* ParameterSweep._setter_factory
ParamNext(o, S) ==
  LET S0 == CallPointFunction(o, S)
  IN IF S0.so[o].idx < Len(points[o])
     THEN LET i == S0.so[o].idx + 1
              v == points[o][i]
          IN Yield([S0 EXCEPT !.so[o].idx = i,
                              !.log = Append(@, [type |-> "set", node |-> o,
                                                 value |-> v, pos |-> i])],
                   log_format(o, v))
     ELSE Stop(S0)

\* Variant: the inner loop yields the outer record alone.
TwoProductMerge_outerOnly(result1, result2) == result2

\* the body of the inner loop of NestedSweep._two_product: result1.update(result2)
TwoProductMerge(result1, result2) == Update(result1, result2)

\* Variant: every round replaces the combined dictionary.
CombineDictionaries_replace(combined, d) == d

\* one round of the loop of ZipSweep._combine_dictionaries: combined.update(d)
CombineDictionaries(combined, d) == Update(combined, d)

RECURSIVE IterAll(_, _, _)
\* zip(*self._sweep_objects) calls iter() on every child, in order
IterAll(o, i, S) ==
  IF i > Len(children[o]) THEN S ELSE IterAll(o, i + 1, IterSO(children[o][i], S))

RECURSIVE NextSO(_, _), SetterNext(_, _), ZipLoop(_, _, _, _),
          LevelNext(_, _, _), OuterStep(_, _, _), ChainAdvance(_, _, _)

\* One step of zip: next() of every child in order, stopping at the first
\* exhausted child; ZipSweep._combine_dictionaries merges the results.
ZipLoop(o, i, S, combined) ==
  IF i > Len(children[o]) THEN Yield(S, combined)
  ELSE LET r == NextSO(children[o][i], S)
       IN IF r.stop THEN Stop([r.S EXCEPT !.so[o].zs = "done"])
          ELSE ZipLoop(o, i + 1, r.S, CombineDictionaries(combined, r.msg))

\* ZipSweep._setter_factory
ZipNext(o, S) ==
  IF S.so[o].zs = "done" THEN Stop(S)
  ELSE IF S.so[o].zs = "new"
       THEN ZipLoop(o, 1, [IterAll(o, 1, S) EXCEPT !.so[o].zs = "run"], EmptyMsg)
       ELSE ZipLoop(o, 1, S, EmptyMsg)

\* Variant: the innermost child is not iterated afresh for a new outer value.
LevelIter_noRestart(o, k, S) ==
  IF k = 1 THEN S
  ELSE [S EXCEPT !.so[o].lev[k] = [st |-> "new", result2 |-> EmptyMsg]]

\* iter() of level k of the product of o
LevelIter(o, k, S) ==
  IF k = 1 THEN IterSO(children[o][1], S)
  ELSE [S EXCEPT !.so[o].lev[k] = [st |-> "new", result2 |-> EmptyMsg]]

\* `for result2 in sweep_object2`: the next outer value, then a fresh pass
\* of the inner loop; an empty inner pass moves on to the next outer value.
OuterStep(o, k, S) ==
  LET r2 == NextSO(children[o][k], S)
  IN IF r2.stop THEN Stop([r2.S EXCEPT !.so[o].lev[k].st = "done"])
     ELSE LET S1 == LevelIter(o, k - 1,
                      [r2.S EXCEPT !.so[o].lev[k] = [st |-> "inner", result2 |-> r2.msg]])
              r1 == LevelNext(o, k - 1, S1)
          IN IF r1.stop THEN OuterStep(o, k, r1.S)
             ELSE Yield(r1.S, TwoProductMerge(r1.msg, r2.msg))

\* next() of level k: the generator inner() of NestedSweep._two_product
\* behind the hook-less IteratorSweep that wraps it.
LevelNext(o, k, S) ==
  IF k = 1 THEN NextSO(children[o][1], S)
  ELSE LET st == S.so[o].lev[k].st
       IN IF st = "done" THEN Stop(S)
          ELSE IF st = "new" THEN OuterStep(o, k, IterSO(children[o][k], S))
          ELSE LET r1 == LevelNext(o, k - 1, S)
               IN IF r1.stop THEN OuterStep(o, k, r1.S)
                  ELSE Yield(r1.S, TwoProductMerge(r1.msg, S.so[o].lev[k].result2))

(***************************************************************************)
(* The chain of the children given to the call of a sweep object.  Its     *)
(* code is not part of the sources at hand; it follows the reference loops *)
(* of test_call and test_call_advanced: the bare callables are invoked     *)
(* once when the chain is started, the child sweep objects are run to      *)
(* exhaustion in listed order, and every record is merged over what the    *)
(* callables returned.  A chain of callables alone yields their output as  *)
(* its one record.                                                         *)
(***************************************************************************)
FuncLabel == [label |-> "f"]

\* One call of a bare callable child.
CallFunction(o, S) ==
  LET n == S.serial + 1
      out == HookOutput(FuncLabel, n)
  IN [S |-> [S EXCEPT !.serial = n,
                      !.log = Append(@, [type |-> "hook", node |-> o, kind |-> "call",
                                         serial |-> n, out |-> out,
                                         st |-> S.so[o].station,
                                         ns |-> S.so[o].namespace])],
      msg |-> out]

RECURSIVE CallFunctions(_, _, _, _)
CallFunctions(o, i, S, msg_all) ==
  IF i > Len(children[o]) THEN [S |-> S, msg |-> msg_all]
  ELSE IF kind[children[o][i]] # "func" THEN CallFunctions(o, i + 1, S, msg_all)
  ELSE LET c == CallFunction(children[o][i], S)
       IN CallFunctions(o, i + 1, c.S, Update(msg_all, c.msg))

SweepChildren(o) == {i \in 1 .. Len(children[o]) : kind[children[o][i]] # "func"}

\* the record of a child sweep merged over the output of the callables
ChainMerge(fmsg, msg) == Update(fmsg, msg)

\* Move on to child j and further until a child yields a record.
ChainAdvance(o, j, S) ==
  IF j > Len(children[o]) THEN Stop([S EXCEPT !.so[o].zs = "done"])
  ELSE IF kind[children[o][j]] = "func" THEN ChainAdvance(o, j + 1, S)
  ELSE LET r == NextSO(children[o][j], IterSO(children[o][j], [S EXCEPT !.so[o].cur = j]))
       IN IF r.stop THEN ChainAdvance(o, j + 1, r.S)
          ELSE Yield(r.S, ChainMerge(r.S.so[o].fmsg, r.msg))

ChainNext(o, S) ==
  CASE S.so[o].zs = "done" -> Stop(S)
    [] S.so[o].zs = "new" ->
         LET c == CallFunctions(o, 1, S, EmptyMsg)
             S1 == [c.S EXCEPT !.so[o].zs = "run", !.so[o].fmsg = c.msg]
         IN IF SweepChildren(o) = {}
            THEN Yield([S1 EXCEPT !.so[o].zs = "done"], c.msg)
            ELSE ChainAdvance(o, 1, S1)
    [] OTHER ->
         LET r == NextSO(children[o][S.so[o].cur], S)
         IN IF r.stop THEN ChainAdvance(o, S.so[o].cur + 1, r.S)
            ELSE Yield(r.S, ChainMerge(r.S.so[o].fmsg, r.msg))

\* next(param_setter) inside _add_measurement_hooks, the first time after
\* iter(param_setter).
SetterNext(o, S) ==
  CASE kind[o] = "param" -> ParamNext(o, S)
    [] kind[o] = "zip" -> ZipNext(o, S)
    [] kind[o] = "chain" -> ChainNext(o, S)
    [] OTHER ->
         LET n == Len(children[o])
         IN IF S.so[o].hk = "new" THEN LevelNext(o, n, LevelIter(o, n, S))
            ELSE LevelNext(o, n, S)

\* Variant: the after_each functions run in the first step only.
HooksStep_eachAtStart(o, S, main_msg) ==
  LET e == IF S.so[o].start THEN ExecuteMeasureFunction(o, "after_each", S)
           ELSE [S |-> S, msg |-> EmptyMsg]
      m1 == Update(main_msg, e.msg)
      s == IF S.so[o].start THEN ExecuteMeasureFunction(o, "after_start", e.S).S
           ELSE e.S
      S2 == [s EXCEPT !.so[o].start = FALSE, !.so[o].hk = "loop"]
  IN IF S2.so[o].is_top_level
     THEN LET g == GetEndMeasurementMessage(o, S2)
          IN Yield(g.S, Update(m1, g.msg))
     ELSE Yield(S2, m1)

\* Variant: the after_end functions run in every step.
HooksStep_endEachStep(o, S, main_msg) ==
  LET e == ExecuteMeasureFunction(o, "after_each", S)
      m1 == Update(main_msg, e.msg)
      s0 == IF S.so[o].start THEN ExecuteMeasureFunction(o, "after_start", e.S).S
            ELSE e.S
      s == ExecuteMeasureFunction(o, "after_end", s0).S
      S2 == [s EXCEPT !.so[o].start = FALSE, !.so[o].hk = "loop"]
  IN IF S2.so[o].is_top_level
     THEN LET g == GetEndMeasurementMessage(o, S2)
          IN Yield(g.S, Update(m1, g.msg))
     ELSE Yield(S2, m1)

\* The body of the for loop of _add_measurement_hooks, lines 95-106.
HooksStep(o, S, main_msg) ==
  LET e == ExecuteMeasureFunction(o, "after_each", S)
      m1 == Update(main_msg, e.msg)
      s == IF S.so[o].start THEN ExecuteMeasureFunction(o, "after_start", e.S).S
           ELSE e.S
      S2 == [s EXCEPT !.so[o].start = FALSE, !.so[o].hk = "loop"]
  IN IF S2.so[o].is_top_level
     THEN LET g == GetEndMeasurementMessage(o, S2)
          IN Yield(g.S, Update(m1, g.msg))
     ELSE Yield(S2, m1)

\* Variant: the trailing record is yielded also when it is empty.
HooksEnd_alwaysYield(o, S) ==
  LET e == ExecuteMeasureFunction(o, "after_end", S)
      S1 == [e.S EXCEPT !.so[o].after_end_msg = Update(@, e.msg)]
  IN IF S1.so[o].is_top_level
     THEN LET g == GetEndMeasurementMessage(o, S1)
          IN Yield([g.S EXCEPT !.so[o].hk = "end"], g.msg)
     ELSE Stop([S1 EXCEPT !.so[o].hk = "done"])

\* Variant: the after_end functions run for a top-level object only.
HooksEnd_topOnly(o, S) ==
  IF S.so[o].is_top_level
  THEN LET e == ExecuteMeasureFunction(o, "after_end", S)
           S1 == [e.S EXCEPT !.so[o].after_end_msg = Update(@, e.msg)]
           g == GetEndMeasurementMessage(o, S1)
       IN IF g.msg # EmptyMsg
          THEN Yield([g.S EXCEPT !.so[o].hk = "end"], g.msg)
          ELSE Stop([g.S EXCEPT !.so[o].hk = "done"])
  ELSE Stop([S EXCEPT !.so[o].hk = "done"])

\* The code after the for loop of _add_measurement_hooks, lines 108-117.
HooksEnd(o, S) ==
  LET e == ExecuteMeasureFunction(o, "after_end", S)
      S1 == [e.S EXCEPT !.so[o].after_end_msg = Update(@, e.msg)]
  IN IF S1.so[o].is_top_level
     THEN LET g == GetEndMeasurementMessage(o, S1)
          IN IF g.msg # EmptyMsg
             THEN Yield([g.S EXCEPT !.so[o].hk = "end"], g.msg)
             ELSE Stop([g.S EXCEPT !.so[o].hk = "done"])
     ELSE Stop([S1 EXCEPT !.so[o].hk = "done"])

\* BaseSweepObject.__next__: resume the generator _add_measurement_hooks.
NextSO(o, S) ==
  CASE S.so[o].hk = "done" -> Stop(S)
    [] S.so[o].hk = "end" -> Stop([S EXCEPT !.so[o].hk = "done"])
    [] OTHER ->
         LET r == SetterNext(o, S)
         IN IF r.stop THEN HooksEnd(o, r.S) ELSE HooksStep(o, r.S, r.msg)

(***************************************************************************)
(* The consumer: `for record in sweep_object`.                             *)
(***************************************************************************)
InitShape(sh) ==
  /\ shape = sh.name
  /\ root = sh.root
  /\ kind = sh.kind
  /\ children = sh.children
  /\ \E len \in [ParamNodes -> 0 .. MaxLen] :
       points = [o \in Nodes |->
                   IF sh.kind[o] = "param" THEN PointList(o, len[o]) ELSE <<>>]
  /\ so = [o \in Nodes |-> InitObject(sh, o)]
  /\ log = <<>>
  /\ serial = 0
  /\ pc = "init"
  /\ merger = NoMerger
  /\ writer = NoWriter
  /\ formatter = NoFormatter
  /\ storage = NoStorage
  /\ measurement = NoMeasurement

Init ==
  \E sh \in Shapes :
    /\ InitShape(sh)
    /\ measure_functions \in HookConfigs(sh)

RECURSIVE set_station(_, _, _), SetStationChildren(_, _, _, _)
SetStationChildren(o, i, station, S) ==
  IF i > Len(children[o]) THEN S
  ELSE SetStationChildren(o, i + 1, station, set_station(children[o][i], station, S))

\* BaseSweepObject.set_station keeps the station on None; the override of
\* CompoundSweep assigns whatever it is given and passes it to every child.
set_station(o, station, S) ==
  IF kind[o] = "param"
  THEN IF station # None THEN [S EXCEPT !.so[o].station = station] ELSE S
  ELSE SetStationChildren(o, 1, station, [S EXCEPT !.so[o].station = station])

RECURSIVE set_namespace(_, _, _), SetNamespaceChildren(_, _, _, _)
SetNamespaceChildren(o, i, namespace, S) ==
  IF i > Len(children[o]) THEN S
  ELSE SetNamespaceChildren(o, i + 1, namespace,
                            set_namespace(children[o][i], namespace, S))

\* Variant: a compound keeps the namespace to itself.
set_namespace_notPassedOn(o, namespace, S) ==
  IF kind[o] = "param"
  THEN IF namespace # None THEN [S EXCEPT !.so[o].namespace = namespace] ELSE S
  ELSE [S EXCEPT !.so[o].namespace = namespace]

\* BaseSweepObject.set_namespace and the override of CompoundSweep
set_namespace(o, namespace, S) ==
  IF kind[o] = "param"
  THEN IF namespace # None THEN [S EXCEPT !.so[o].namespace = namespace] ELSE S
  ELSE SetNamespaceChildren(o, 1, namespace, [S EXCEPT !.so[o].namespace = namespace])

\* sweep_object.set_station(station), before the iteration as in
\* Measurement.run
SetStation ==
  /\ pc = "init"
  /\ \E station \in Stations :
       so' = set_station(root, station, [so |-> so, log |-> log, serial |-> serial]).so
  /\ UNCHANGED <<static, log, serial, pc>>

\* sweep_object.set_namespace(namespace), before the iteration as in
\* Measurement.run
SetNamespace ==
  /\ pc = "init"
  /\ \E namespace \in Namespaces :
       so' = set_namespace(root, namespace, [so |-> so, log |-> log, serial |-> serial]).so
  /\ UNCHANGED <<static, log, serial, pc>>

\* iter(sweep_object)
Start ==
  /\ pc = "init"
  /\ so' = IterSO(root, [so |-> so, log |-> log, serial |-> serial]).so
  /\ pc' = "iterating"
  /\ UNCHANGED <<static, log, serial>>

\* next(sweep_object): a record, or StopIteration
Pull ==
  /\ pc = "iterating"
  /\ LET r == NextSO(root, [so |-> so, log |-> log, serial |-> serial])
     IN /\ so' = r.S.so
        /\ serial' = r.S.serial
        /\ IF r.stop
           THEN log' = r.S.log /\ pc' = "done"
           ELSE /\ log' = Append(r.S.log, [type |-> "yield", rec |-> r.msg,
                                           at |-> r.S.so[root].hk])
                /\ pc' = "iterating"
  /\ UNCHANGED static

\* The consumer leaves its loop before the sweep object is exhausted.  The
\* generators stay suspended at their yield: _add_measurement_hooks has no
\* try/finally, so that nothing of it runs any more, also when the
\* generators are closed.
Abandon ==
  /\ pc = "iterating"
  /\ pc' = "stopped"
  /\ UNCHANGED <<static, so, log, serial>>

Next == Start \/ Pull \/ Abandon

Spec == Init /\ [][Next]_vars

(***************************************************************************)
(* The call of a sweep object, so(c1, ..., cn), with so the sweep of       *)
(* parameter 1: the chain of the children is the inner loop and so the     *)
(* outer one, as in the reference loops of test_call.  ProductAsListed is  *)
(* nested_sweep(so, chain), where the chain is the outer loop.             *)
(***************************************************************************)
ChainKinds(others) ==
  [o \in Nodes |->
     IF o = 1 \/ (o \in ParamNodes /\ \E i \in 1 .. Len(others) : others[i] = o)
     THEN "param"
     ELSE IF o = 4 THEN "chain"
     ELSE IF o = 5 THEN "nest"
     ELSE IF o = FuncNode /\ \E i \in 1 .. Len(others) : others[i] = o THEN "func"
     ELSE "unused"]

\* Variant: the sweep object that is called is the inner loop.
Call_listedOrder(name, others) ==
  [name |-> name, root |-> 5, kind |-> ChainKinds(others),
   children |-> [NoChildren EXCEPT ![4] = others, ![5] = <<1, 4>>]]

Call(name, others) ==
  [name |-> name, root |-> 5, kind |-> ChainKinds(others),
   children |-> [NoChildren EXCEPT ![4] = others, ![5] = <<4, 1>>]]

ProductAsListed(name, others) ==
  [name |-> name, root |-> 5, kind |-> ChainKinds(others),
   children |-> [NoChildren EXCEPT ![4] = others, ![5] = <<1, 4>>]]

CallShapes ==
  { Call("call_f", <<FuncNode>>),
    Call("call_sf", <<2, FuncNode>>),
    Call("call_fs", <<FuncNode, 2>>),
    Call("call_ss", <<2, 3>>),
    Call("call_sfs", <<2, FuncNode, 3>>) }

ListedShapes ==
  { ProductAsListed("listed_f", <<FuncNode>>),
    ProductAsListed("listed_sf", <<2, FuncNode>>) }

InitCall ==
  \E sh \in CallShapes \cup ListedShapes :
    /\ InitShape(sh)
    /\ measure_functions = NoHooks

SpecCall == InitCall /\ [][Next]_vars

(***************************************************************************)
(* The consumer of Measurement.run: it gives the sweep object a station    *)
(* and a namespace and then iterates it.  The compositions are the         *)
(* compound ones, every parameter has the same number of points and one    *)
(* measurement function reporting under "m" is registered somewhere.       *)
(***************************************************************************)
InitContext ==
  /\ Init
  /\ kind[root] # "param"
  /\ \E n \in 1 .. MaxLen : \A p \in ParamNodes : kind[p] = "param" => Len(points[p]) = n
  /\ \E o \in Nodes : \E h \in HookNames :
       measure_functions = [NoHooks EXCEPT ![o][h] = << [label |-> "m"] >>]

NextContext == SetStation \/ SetNamespace \/ Start \/ Pull \/ Abandon

SpecContext == InitContext /\ [][NextContext]_vars

(***************************************************************************)
(* Observations on the log and on the configuration of a run.              *)
(***************************************************************************)
IsYield(e) == e.type = "yield"
IsSet(e) == e.type = "set"

\* The records the consumer has received, in order.
Yields == SelectSeq(log, IsYield)
SetCalls == SelectSeq(log, IsSet)

\* Places of the log: of the yields, of the set calls of parameter o, of
\* the calls of the hooks `name` of object o.
YieldAt == {k \in 1 .. Len(log) : log[k].type = "yield"}
SetAt(o) == {k \in 1 .. Len(log) : log[k].type = "set" /\ log[k].node = o}
HookAt(o, name) ==
  {k \in 1 .. Len(log) : log[k].type = "hook" /\ log[k].node = o /\ log[k].kind = name}

\* The i-th smallest element of a set of places (0 for i = 0).
NthOf(places, i) ==
  IF i = 0 THEN 0
  ELSE CHOOSE k \in places : Cardinality({j \in places : j <= k}) = i

\* The number of set-point records received: the yields of the for loop of
\* _add_measurement_hooks, as opposed to the trailing after_end record.
Count_loop == Cardinality({k \in YieldAt : log[k].at = "loop"})

IsPrefix(s, t) == Len(s) <= Len(t) /\ SubSeq(t, 1, Len(s)) = s

\* The measurement functions registered in this run.
Registered ==
  UNION { { [node |-> o, kind |-> h, label |-> measure_functions[o][h][i].label] :
              i \in 1 .. Len(measure_functions[o][h]) } :
          o \in Nodes, h \in HookNames }

\* Some after_end function returns data.
EndData == \E h \in Registered : h.kind = "after_end" /\ h.label # ""
\* Some measurement function reports under the label of a parameter.
LabelClash == \E h \in Registered : h.label = "p1"

Min(a, b) == IF a < b THEN a ELSE b

\* The number of set points of a sweep object: the length of the point
\* list, the product over the children of a nest, the minimum over the
\* children of a zip.
RECURSIVE SetPoints(_), SetPointsFrom(_, _)
SetPointsFrom(o, i) ==
  IF i = Len(children[o]) THEN SetPoints(children[o][i])
  ELSE IF kind[o] = "nest"
       THEN SetPoints(children[o][i]) * SetPointsFrom(o, i + 1)
       ELSE Min(SetPoints(children[o][i]), SetPointsFrom(o, i + 1))
SetPoints(o) == IF kind[o] = "param" THEN Len(points[o]) ELSE SetPointsFrom(o, 1)

\* The entry of the i-th set point of parameter p.
PointEntry(p, i) == log_format(p, points[p][i])[Label(p)]
Holds(rec, p, i) == Label(p) \in DOMAIN rec /\ rec[Label(p)] = PointEntry(p, i)

(***************************************************************************)
(* C1: iterating nested_sweep(A, B) over static point lists a and b, with  *)
(* no after_end data, yields exactly len(a)*len(b) records; every          *)
(* positional pair (a[i], b[j]) is in exactly one record, the one at       *)
(* place (j-1)*len(a)+i.                                                   *)
(***************************************************************************)
C1_CartesianComplete ==
  (shape = "N2" /\ pc = "done" /\ ~EndData /\ ~LabelClash) =>
    LET la == Len(points[1])
        lb == Len(points[2])
    IN /\ Len(Yields) = la * lb
       /\ \A i \in 1 .. la : \A j \in 1 .. lb :
            /\ Cardinality({k \in 1 .. Len(Yields) :
                 Holds(Yields[k].rec, 1, i) /\ Holds(Yields[k].rec, 2, j)}) = 1
            /\ Holds(Yields[(j - 1) * la + i].rec, 1, i)
            /\ Holds(Yields[(j - 1) * la + i].rec, 2, j)

C1_Witness ==
  /\ shape = "N2" /\ pc = "done" /\ ~EndData /\ ~LabelClash
  /\ Len(points[1]) = 2 /\ Len(points[2]) = 2
  /\ Len(Yields) = 4

(***************************************************************************)
(* C2: nested_sweep(s1, ..., sn) makes the set calls and yields the        *)
(* records of n nested for loops with sn outermost and s1 innermost, in    *)
(* the same order.  NestedLoops is that loop nest; with no hooks the whole *)
(* log equals it, and with hooks the set calls are still the same.         *)
(***************************************************************************)
RECURSIVE NestedLoops(_, _, _), NestedLoopsFrom(_, _, _, _)
NestedLoopsFrom(o, k, i, rec) ==
  LET p == children[o][k]
  IN IF i > Len(points[p]) THEN <<>>
     ELSE << [type |-> "set", node |-> p, value |-> points[p][i], pos |-> i] >>
          \o NestedLoops(o, k - 1, log_format(p, points[p][i]) @@ rec)
          \o NestedLoopsFrom(o, k, i + 1, rec)
NestedLoops(o, k, rec) ==
  IF k = 0 THEN << [type |-> "yield", rec |-> rec, at |-> "loop"] >>
  ELSE NestedLoopsFrom(o, k, 1, rec)

C2_NestedLoopOrder ==
  (shape \in {"N2", "N3"}) =>
    LET ref == NestedLoops(root, Len(children[root]), EmptyMsg)
    IN /\ IsPrefix(SetCalls, SelectSeq(ref, IsSet))
       /\ pc = "done" => SetCalls = SelectSeq(ref, IsSet)
       /\ Registered = {} => (IsPrefix(log, ref) /\ (pc = "done" => log = ref))

C2_Witness ==
  /\ shape = "N3" /\ pc = "done" /\ Registered = {}
  /\ \A p \in ParamNodes : Len(points[p]) = 2
  /\ Len(Yields) = 8

(***************************************************************************)
(* C3: zip_sweep(s1, ..., sn) yields min(lengths) records, the i-th one    *)
(* holding the i-th set point of every child, and in each step the         *)
(* parameters are set in the listed order.                                 *)
(***************************************************************************)
C3_ZipLength ==
  (shape \in {"Z2", "Z3"} /\ ~LabelClash) =>
    LET n == Len(children[root])
    IN /\ \A i \in 1 .. Count_loop :
            /\ \A c \in 1 .. n : Holds(Yields[i].rec, children[root][c], i)
            /\ NthOf(YieldAt, i - 1) < NthOf(SetAt(children[root][1]), i)
            /\ \A c \in 1 .. n - 1 :
                 NthOf(SetAt(children[root][c]), i) < NthOf(SetAt(children[root][c + 1]), i)
            /\ NthOf(SetAt(children[root][n]), i) < NthOf(YieldAt, i)
       /\ pc = "done" => Count_loop = SetPoints(root)
       /\ (pc = "done" /\ ~EndData) => Len(Yields) = SetPoints(root)

C3_Witness ==
  /\ shape = "Z3" /\ pc = "done" /\ ~LabelClash
  /\ Len(points[1]) = 2 /\ Len(points[2]) = 1 /\ Len(points[3]) = 2
  /\ Len(Yields) = 1
(***************************************************************************)
(* C4: a parameter swept over k points with an after_each hook: the hook   *)
(* is called k times, the i-th call right after the i-th set call and      *)
(* before the i-th record reaches the consumer.                            *)
(***************************************************************************)
C4_AfterEachOrder ==
  \A o \in ParamNodes :
    measure_functions[o]["after_each"] # <<>> =>
      LET H == HookAt(o, "after_each")
      IN /\ Cardinality(H) = Cardinality(SetAt(o))
         /\ \A i \in 1 .. Cardinality(H) : NthOf(H, i) = NthOf(SetAt(o), i) + 1
         /\ o = root =>
              /\ Cardinality(H) = Count_loop
              /\ \A i \in 1 .. Cardinality(H) :
                   NthOf(YieldAt, i - 1) < NthOf(SetAt(o), i) /\ NthOf(H, i) < NthOf(YieldAt, i)
              /\ pc = "done" => Cardinality(H) = Len(points[o])

C4_Witness ==
  /\ shape = "P" /\ pc = "done" /\ Len(points[1]) = 2
  /\ measure_functions[1]["after_each"] # <<>>
  /\ Cardinality(HookAt(1, "after_each")) = 2
  /\ Len(Yields) = 2

(***************************************************************************)
(* C5: every set-point record holds, under the label of each swept         *)
(* parameter, the entry of the value that was set last, whatever the       *)
(* hooks and pending after_end messages report.                            *)
(***************************************************************************)
LastSet(p, k) == NthOf(SetAt(p), Cardinality({j \in SetAt(p) : j < k}))

C5_OwnEntryKept ==
  \A k \in YieldAt :
    log[k].at = "loop" =>
      \A p \in ParamNodes :
        kind[p] = "param" =>
          /\ LastSet(p, k) > 0
          /\ Label(p) \in DOMAIN log[k].rec
          /\ log[k].rec[Label(p)] = log_format(p, log[LastSet(p, k)].value)[Label(p)]

(***************************************************************************)
(* C6: a full iteration of a top-level sweep object over n set points      *)
(* yields n records when no after_end hook returns data, and n+1 records   *)
(* when its after_end hook returns data; the last record then holds only   *)
(* after_end output.                                                       *)
(***************************************************************************)
AfterEndOutput(l, entry) ==
  \E k \in 1 .. Len(log) :
    /\ log[k].type = "hook" /\ log[k].kind = "after_end"
    /\ l \in DOMAIN log[k].out /\ log[k].out[l] = entry

RootEndData ==
  \E h \in Registered : h.node = root /\ h.kind = "after_end" /\ h.label # ""

C6_RecordCount ==
  pc = "done" =>
    LET n == SetPoints(root)
    IN /\ ~EndData => Len(Yields) = n
       /\ RootEndData =>
            /\ Len(Yields) = n + 1
            /\ \A i \in 1 .. n : Yields[i].at = "loop"
            /\ Yields[n + 1].at = "end"
            /\ DOMAIN Yields[n + 1].rec # {}
            /\ \A l \in DOMAIN Yields[n + 1].rec : AfterEndOutput(l, Yields[n + 1].rec[l])

C6_Witness ==
  /\ shape = "P" /\ pc = "done" /\ Len(points[1]) = 2
  /\ RootEndData
  /\ Len(Yields) = 3
  /\ DOMAIN Yields[3].rec = {"m"}

(***************************************************************************)
(* C7: in every pass over a sweep object its after_start hook is called    *)
(* once, after the first set call of the pass and before a record is       *)
(* yielded, and never when the pass has no set point; for a child of a     *)
(* nest that is once per value of the enclosing outer sweeps.              *)
(***************************************************************************)
FirstSetAt(o) == {k \in SetAt(o) : log[k].pos = 1}

\* The number of passes made over child c of a nest of parameters.
RECURSIVE OuterValues(_, _)
OuterValues(o, c) ==
  IF c >= Len(children[o]) THEN 1
  ELSE Len(points[children[o][c + 1]]) * OuterValues(o, c + 1)

C7_AfterStartOnce ==
  /\ \A o \in ParamNodes :
       measure_functions[o]["after_start"] # <<>> =>
         LET A == HookAt(o, "after_start")
         IN /\ Cardinality(A) = Cardinality(FirstSetAt(o))
            /\ \A i \in 1 .. Cardinality(A) :
                 /\ NthOf(FirstSetAt(o), i) < NthOf(A, i)
                 /\ \A k \in NthOf(FirstSetAt(o), i) + 1 .. NthOf(A, i) - 1 :
                      log[k].type = "hook" /\ log[k].node = o
            /\ (pc = "done" /\ shape \in {"N2", "N3"}) =>
                 \A c \in 1 .. Len(children[root]) :
                   (children[root][c] = o /\ Len(points[o]) > 0) =>
                     Cardinality(A) = OuterValues(root, c)
  /\ measure_functions[root]["after_start"] # <<>> =>
       LET A == HookAt(root, "after_start")
       IN /\ Cardinality(A) = (IF Count_loop > 0 THEN 1 ELSE 0)
          /\ \A k \in A : k < NthOf(YieldAt, 1) /\ \E j \in 1 .. k - 1 : log[j].type = "set"

C7_Witness ==
  /\ shape = "N2" /\ pc = "done"
  /\ measure_functions[1]["after_start"] # <<>>
  /\ Len(points[1]) = 2 /\ Len(points[2]) = 2
  /\ Cardinality(HookAt(1, "after_start")) = 2
(***************************************************************************)
(* C8 as stated: Product([sweep(P1, [v1..vk]), sweep(P2, ..).after_end(M)])*)
(* over non-empty point lists, run to completion, calls M k times in all.  *)
(***************************************************************************)
C8_Original ==
  (/\ shape = "N2" /\ pc = "done" /\ measure_functions[2]["after_end"] # <<>>
   /\ Len(points[1]) >= 1 /\ Len(points[2]) >= 1) =>
    Cardinality(HookAt(2, "after_end")) = Len(points[1])

(***************************************************************************)
(* C8 amended: the last-listed sweep is the outermost one, so M on P2 is   *)
(* called once, after the last set call, whatever k is.  The count follows *)
(* the outer sweep when M is on the first-listed sweep:                    *)
(* Product([sweep(P1, ..).after_end(M), sweep(P2, [v1..vk])]) calls M k    *)
(* times, k-1 times before a later set call of P2 and once after the last  *)
(* set call.                                                               *)
(***************************************************************************)
AfterAllSets(k) == \A j \in 1 .. Len(log) : log[j].type = "set" => j < k

C8_AfterEndCount ==
  (shape = "N2" /\ pc = "done") =>
    /\ measure_functions[2]["after_end"] # <<>> =>
         /\ Cardinality(HookAt(2, "after_end")) = 1
         /\ \A k \in HookAt(2, "after_end") : AfterAllSets(k)
    /\ measure_functions[1]["after_end"] # <<>> =>
         LET M == HookAt(1, "after_end")
             followed == {k \in M : \E j \in SetAt(2) : j > k}
         IN /\ Cardinality(M) = Len(points[2])
            /\ Len(points[2]) > 0 =>
                 /\ Cardinality(followed) = Len(points[2]) - 1
                 /\ \A k \in M \ followed : AfterAllSets(k)

C8_Witness ==
  /\ shape = "N2" /\ pc = "done"
  /\ measure_functions[2]["after_end"] # <<>>
  /\ Len(points[1]) = 2 /\ Len(points[2]) = 2
  /\ Cardinality(HookAt(2, "after_end")) = 1
  /\ Len(Yields) >= 4

(***************************************************************************)
(* C9 as stated: every after_end message of a sweep object inside a        *)
(* compound is in the first record yielded after it was produced (the      *)
(* trailing record if no set point follows) and in no other record.        *)
(***************************************************************************)
\* The after_end messages produced by objects that are not top level.
ChildMessages ==
  {k \in 1 .. Len(log) :
     /\ log[k].type = "hook" /\ log[k].kind = "after_end"
     /\ log[k].node # root /\ DOMAIN log[k].out # {}}

MsgLabel(k) == CHOOSE l \in DOMAIN log[k].out : TRUE

\* The records that hold the message produced at place k.
DeliveredAt(k) ==
  {y \in YieldAt : /\ MsgLabel(k) \in DOMAIN log[y].rec
                   /\ log[y].rec[MsgLabel(k)] = log[k].out[MsgLabel(k)]}

FirstYieldAfter(k) ==
  {y \in YieldAt : y > k /\ \A z \in YieldAt : z > k => y <= z}

C9_Original ==
  \A k \in ChildMessages :
    FirstYieldAfter(k) # {} /\ DeliveredAt(k) = FirstYieldAfter(k)

(***************************************************************************)
(* C9 amended: pending messages are kept per label.  An after_end message  *)
(* of an object inside a compound is never in a record other than the      *)
(* first one yielded after it was produced; that record exists and holds,  *)
(* under the label of the message, an after_end message produced since the *)
(* previous record; the message itself is missing from it only if another  *)
(* after_end message with the same label was produced between the same two *)
(* records.                                                                *)
(***************************************************************************)
SameGap(k, j) ==
  \A y \in YieldAt : ~(k < y /\ y < j) /\ ~(j < y /\ y < k)

Rival(k, j) ==
  /\ j # k /\ log[j].type = "hook" /\ log[j].kind = "after_end"
  /\ MsgLabel(k) \in DOMAIN log[j].out
  /\ SameGap(k, j)

C9_DeliveredOncePerLabel ==
  \A k \in ChildMessages :
    /\ FirstYieldAfter(k) # {}
    /\ DeliveredAt(k) \subseteq FirstYieldAfter(k)
    /\ \A y \in FirstYieldAfter(k) :
         /\ MsgLabel(k) \in DOMAIN log[y].rec
         /\ \E j \in 1 .. Len(log) :
              /\ j = k \/ Rival(k, j)
              /\ log[y].rec[MsgLabel(k)] = log[j].out[MsgLabel(k)]
    /\ DeliveredAt(k) = {} => \E j \in 1 .. Len(log) : Rival(k, j)

C9_Witness ==
  /\ shape = "NN" /\ pc = "done"
  /\ measure_functions[1]["after_end"] = << [label |-> "m"] >>
  /\ \A p \in ParamNodes : Len(points[p]) = 2
  /\ Cardinality(ChildMessages) = 4
  /\ \A k \in ChildMessages : DeliveredAt(k) = FirstYieldAfter(k) /\ DeliveredAt(k) # {}
  /\ Len(Yields) = 9

(***************************************************************************)
(* C10: a sweep object inside a compound never yields an after_end record  *)
(* of its own: a nest yields one set-point record per combination of its   *)
(* children's set points, plus at most one trailing after_end record, the  *)
(* outermost object's.                                                     *)
(***************************************************************************)
IsSetPointRecord(rec) == \E l \in DOMAIN rec : rec[l].independent_parameter

C10_NoInnerEndRecord ==
  /\ \A o \in Nodes : o # root => so[o].hk # "end"
  /\ (kind[root] = "nest" /\ pc = "done") =>
       LET n == SetPoints(root)
       IN /\ Len(Yields) \in {n, n + 1}
          /\ \A i \in 1 .. n : Yields[i].at = "loop" /\ IsSetPointRecord(Yields[i].rec)
          /\ Len(Yields) = n + 1 =>
               /\ Yields[n + 1].at = "end"
               /\ ~IsSetPointRecord(Yields[n + 1].rec)
               /\ \A l \in DOMAIN Yields[n + 1].rec : AfterEndOutput(l, Yields[n + 1].rec[l])

C10_Witness ==
  /\ shape = "N3" /\ pc = "done"
  /\ measure_functions[2]["after_end"] = << [label |-> "m"] >>
  /\ \A p \in ParamNodes : Len(points[p]) = 2
  /\ Len(Yields) = 9

(***************************************************************************)
(* C11: in a product of two sweep objects whose records hold the same      *)
(* label, every yielded record holds the entry of the inner (first-listed) *)
(* sweep under that label.  Here the inner sweep is parameter 1 without    *)
(* hooks, so its record is the entry of the value set last; the outer      *)
(* sweep's record holds the label "p1" when its after_each function        *)
(* reports under it.                                                       *)
(***************************************************************************)
C11_InnerEntryWins ==
  (/\ shape = "N2"
   /\ \A h \in Registered : h.node = 2) =>
    \A k \in YieldAt :
      log[k].at = "loop" =>
        /\ LastSet(1, k) > 0
        /\ "p1" \in DOMAIN log[k].rec
        /\ log[k].rec["p1"] = log_format(1, log[LastSet(1, k)].value)["p1"]

(***************************************************************************)
(* Station and namespace.                                                  *)
(***************************************************************************)
\* The places of the log where a measurement function is called.
HookCalls == {k \in 1 .. Len(log) : log[k].type = "hook"}

\* Every child of a compound has been made non-top-level.
ChildrenNotTopLevel ==
  \A c \in Nodes : \A i \in 1 .. Len(children[c]) : ~so[children[c][i]].is_top_level

\* C12 as stated: constructing a compound marks every child non-top-level,
\* and after set_namespace(ns) and set_station(st) on the compound every
\* hook and every point function of every descendant is called with the
\* ns and st given last, whatever they are.
C12_Original ==
  /\ ChildrenNotTopLevel
  /\ kind[root] # "param" =>
       /\ \A k \in HookCalls :
            log[k].ns = so[root].namespace /\ log[k].st = so[root].station
       /\ \A p \in ParamNodes : \A i \in 1 .. Len(so[p].pf_calls) :
            /\ so[p].pf_calls[i].ns = so[root].namespace
            /\ so[p].pf_calls[i].st = so[root].station

(***************************************************************************)
(* C12: constructing a compound marks every child non-top-level.  After    *)
(* set_namespace(ns) on the compound with ns other than None, every hook   *)
(* and point function of every descendant, at any depth, is called with    *)
(* that ns, and likewise for set_station(st) with st other than None.  A   *)
(* None reaches the compound objects only: their hooks are called with it, *)
(* the leaves keep what they had.                                          *)
(***************************************************************************)
C12_ContextPassedOn ==
  /\ ChildrenNotTopLevel
  /\ kind[root] # "param" =>
       /\ \A k \in HookCalls :
            /\ (so[root].namespace # None \/ kind[log[k].node] # "param") =>
                 log[k].ns = so[root].namespace
            /\ (so[root].station # None \/ kind[log[k].node] # "param") =>
                 log[k].st = so[root].station
       /\ \A p \in ParamNodes : \A i \in 1 .. Len(so[p].pf_calls) :
            /\ so[root].namespace # None => so[p].pf_calls[i].ns = so[root].namespace
            /\ so[root].station # None => so[p].pf_calls[i].st = so[root].station

\* nested_sweep(nested_sweep(p1, p2), p3) with an after_each function on
\* p1, two levels below the object that was given namespace 1 and
\* station 2, has run to its end.
C12_Witness ==
  /\ shape = "NN" /\ pc = "done"
  /\ measure_functions[1]["after_each"] # <<>>
  /\ so[root].namespace = 1 /\ so[root].station = 2
  /\ \E k \in HookCalls : log[k].node = 1 /\ log[k].ns = 1 /\ log[k].st = 2
  /\ \A p \in ParamNodes :
       so[p].pf_calls # <<>> /\ so[p].pf_calls[1] = [st |-> 2, ns |-> 1]

(***************************************************************************)
(* The call of a sweep object.                                             *)
(***************************************************************************)
IsSetEvent(e) == e.type = "set"

\* The set calls made between two places of the log.
SetsBetween(a, b) == SelectSeq(SubSeq(log, a + 1, b - 1), IsSetEvent)

\* The set calls of one full pass of the child sweeps of chain o from
\* child i on, in listed order.
RECURSIVE ChainSetsFrom(_, _)
ChainSetsFrom(o, i) ==
  IF i > Len(children[o]) THEN <<>>
  ELSE IF kind[children[o][i]] = "func" THEN ChainSetsFrom(o, i + 1)
  ELSE LET c == children[o][i]
       IN [j \in 1 .. Len(points[c]) |->
             [type |-> "set", node |-> c, value |-> points[c][j], pos |-> j]]
          \o ChainSetsFrom(o, i + 1)

\* The part of the log that belongs to the i-th value of the called sweep
\* object: from its set call up to the next set call of the parameter.
ValueStart(i) == NthOf(SetAt(1), i)
ValueEnd(i) ==
  IF i < Cardinality(SetAt(1)) THEN NthOf(SetAt(1), i + 1) ELSE Len(log) + 1

\* For each value of so: every bare callable child is invoked exactly
\* once, its output is in every record for that value, the child sweeps
\* are run to exhaustion in listed order, and there is one record per set
\* point of a child sweep (one record when all children are callables).
CallBehaviour ==
  /\ Cardinality(SetAt(1)) = Len(points[1])
  /\ \A i \in 1 .. Len(points[1]) :
       LET a == ValueStart(i)
           b == ValueEnd(i)
           calls == {k \in HookCalls : a < k /\ k < b /\ log[k].node = FuncNode}
           recs == {k \in YieldAt : a < k /\ k < b}
       IN /\ log[a].value = points[1][i]
          /\ kind[FuncNode] = "func" =>
               /\ Cardinality(calls) = 1
               /\ \A y \in recs : \A k \in calls :
                    k < y /\ "f" \in DOMAIN log[y].rec /\ log[y].rec["f"] = log[k].out["f"]
          /\ SetsBetween(a, b) = ChainSetsFrom(4, 1)
          /\ Cardinality(recs) =
               IF SweepChildren(4) = {} THEN 1 ELSE Len(ChainSetsFrom(4, 1))
          /\ \A y \in recs : Holds(log[y].rec, 1, i)

EndsOfEarlierPasses(p) ==
  \A k \in HookAt(p, "after_end") :
    /\ LastSet(p, k) > 0
    /\ log[LastSet(p, k)].pos = Len(points[p])
    /\ so[p].hk = "loop" => \E j \in SetAt(p) : j > k /\ log[j].pos = so[p].idx

NothingAfterLastRecord ==
  pc = "stopped" =>
    /\ log # <<>> => log[Len(log)].type = "yield"
    /\ so[root].hk \in {"new", "loop"} => HookAt(root, "after_end") = {}
    /\ \A p \in ParamNodes :
         (kind[p] = "param" /\ Len(points[p]) >= 1 /\ so[p].hk \in {"new", "loop"}) =>
           EndsOfEarlierPasses(p)

C14_NoCallAfterStop ==
  /\ []NothingAfterLastRecord
  /\ [][pc = "stopped" => (pc' = "stopped" /\ log' = log /\ serial' = serial)]_vars

\* nested_sweep of two parameters of two points each, with after_end
\* functions on the inner parameter and on the nest, is left after the
\* third record: the inner parameter's function has run once, for the
\* pass that ended, and the function of the nest has not run.
C14_Witness ==
  /\ shape = "N2" /\ pc = "stopped"
  /\ Len(points[1]) = 2 /\ Len(points[2]) = 2
  /\ measure_functions[1]["after_end"] # <<>>
  /\ measure_functions[4]["after_end"] # <<>>
  /\ Len(Yields) = 3
  /\ Cardinality(HookAt(1, "after_end")) = 1
  /\ HookAt(4, "after_end") = {}

(***************************************************************************)
(* DictMerge (src/pysweep/utils.py).                                       *)
(*                                                                         *)
(* Python values carry their type: a number, a list, a dict (the sequence  *)
(* of its items in insertion order), None, or the exception a call ended   *)
(* with.                                                                   *)
(***************************************************************************)
\* Longest list of records given to DictMerge.merge.
MaxRecords == 3

Num(n) == [t |-> "int", v |-> n]
List(s) == [t |-> "list", v |-> s]
Dict(items) == [t |-> "dict", v |-> items]
NoneValue == [t |-> "none", v |-> <<>>]
Raise(name) == [t |-> "raise", v |-> name]
Item(k, val) == [k |-> k, val |-> val]

\* k in d, d[k] and d[k] = val on the items of a dict
DictHas(items, k) == \E i \in 1 .. Len(items) : items[i].k = k
DictGet(items, k) == items[CHOOSE i \in 1 .. Len(items) : items[i].k = k].val
DictSet(items, k, val) ==
  IF DictHas(items, k)
  THEN [i \in 1 .. Len(items) |-> IF items[i].k = k THEN Item(k, val) ELSE items[i]]
  ELSE Append(items, Item(k, val))

\* DictMerge._add_default: a defaultdict that answers "dict_merge" for the
\* names that are not registered.
StrategyOf(strategy, k) == IF k \in DOMAIN strategy THEN strategy[k] ELSE "dict_merge"

\* DictMerge._make_list
make_list(v) == IF v.t = "list" THEN v.v ELSE <<v>>

\* dict(v): a copy of a dict, {} of an empty list, TypeError of a number
\* and of a list of numbers.
DictOf(v) ==
  CASE v.t = "dict" -> v
    [] v.t = "list" /\ v.v = <<>> -> Dict(<<>>)
    [] OTHER -> Raise("TypeError")

RECURSIVE merge_two(_, _, _), MergeItems(_, _, _, _)
\* the loop `for k, v in d2.items()` of DictMerge._merge_two, from item i on
MergeItems(strategy, result, items, i) ==
  IF i > Len(items) THEN Dict(result)
  ELSE LET k == items[i].k
           v == items[i].val
       IN IF DictHas(result, k)
          THEN LET s == StrategyOf(strategy, k)
                   m == CASE s = "append" ->
                               List(make_list(DictGet(result, k)) \o make_list(v))
                          [] s = "replace" -> v
                          [] s = "dict_merge" -> merge_two(strategy, v, DictGet(result, k))
                          [] OTHER -> NoneValue
               IN IF m.t = "raise" THEN m
                  ELSE MergeItems(strategy, DictSet(result, k, m), items, i + 1)
          ELSE MergeItems(strategy, Append(result, Item(k, v)), items, i + 1)

\* DictMerge._merge_two
merge_two(strategy, d1, d2) ==
  IF DictOf(d1).t = "raise" THEN DictOf(d1)
  ELSE IF d2.t # "dict" THEN Raise("AttributeError")
  ELSE MergeItems(strategy, DictOf(d1).v, d2.v, 1)

RECURSIVE MergeFrom(_, _, _, _)
\* the loop `for d in dicts[1:]` of DictMerge.merge
MergeFrom(strategy, result, dicts, i) ==
  IF i > Len(dicts) \/ result.t = "raise" THEN result
  ELSE MergeFrom(strategy, merge_two(strategy, result, DictOf(dicts[i])), dicts, i + 1)

\* DictMerge.merge
merge(strategy, dicts) ==
  IF dicts = <<>> THEN Raise("IndexError")
  ELSE MergeFrom(strategy, DictOf(dicts[1]), dicts, 2)

(***************************************************************************)
(* The same merge with Python's lists as objects.  result = dict(d1) and   *)
(* dict(d) are new dicts whose values are the objects of the dict that is  *)
(* copied, _make_list returns the list it is given, and m.extend(...)      *)
(* changes that list in place.  A list carries its owner: the path         *)
(* <<i, k, ...>> of the place it has in the i-th record given to merge,    *)
(* or <<>> for a list that the merge has made.  Every extend of a list of  *)
(* a record is written down, so that the records can be read as the call   *)
(* leaves them.                                                            *)
(***************************************************************************)
RECURSIVE OwnValue(_, _)
\* the value with every list inside it marked as the object at this path
OwnValue(val, path) ==
  CASE val.t = "list" -> [t |-> "list", v |-> val.v, own |-> path]
    [] val.t = "dict" ->
         Dict([c \in 1 .. Len(val.v) |->
                 Item(val.v[c].k, OwnValue(val.v[c].val, Append(path, val.v[c].k)))])
    [] OTHER -> val

Owned(dicts) == [i \in 1 .. Len(dicts) |-> OwnValue(dicts[i], <<i>>)]

RECURSIVE Strip(_)
\* the content of a value, whatever objects hold it
Strip(val) ==
  CASE val.t = "list" -> List([n \in 1 .. Len(val.v) |-> Strip(val.v[n])])
    [] val.t = "dict" ->
         Dict([c \in 1 .. Len(val.v) |-> Item(val.v[c].k, Strip(val.v[c].val))])
    [] OTHER -> val

\* m = self._make_list(result[k]); m.extend(self._make_list(v)): the list
\* result[k] itself when result[k] is a list, a new list otherwise.
Extended(old, v) ==
  [t |-> "list", v |-> make_list(old) \o make_list(v),
   own |-> IF old.t = "list" THEN old.own ELSE <<>>]

\* the extends made so far, with that of m when m is a list of a record
Logged(extends, m) ==
  IF m.own # <<>> THEN Append(extends, [own |-> m.own, v |-> m.v]) ELSE extends

RECURSIVE merge_two_in_place(_, _, _, _), MergeItemsInPlace(_, _, _, _, _)
\* the branches on strategy of DictMerge._merge_two
MergeStep(strategy, old, v, s, extends) ==
  CASE s = "append" ->
         [val |-> Extended(old, v), extends |-> Logged(extends, Extended(old, v))]
    [] s = "replace" -> [val |-> v, extends |-> extends]
    [] s = "dict_merge" -> merge_two_in_place(strategy, v, old, extends)
    [] OTHER -> [val |-> NoneValue, extends |-> extends]

\* result[k] = m, and the rest of the loop
StoreStep(strategy, result, items, i, step) ==
  IF step.val.t = "raise" THEN step
  ELSE MergeItemsInPlace(strategy, DictSet(result, items[i].k, step.val), items, i + 1,
                         step.extends)

\* the loop `for k, v in d2.items()` of DictMerge._merge_two, from item i on
MergeItemsInPlace(strategy, result, items, i, extends) ==
  IF i > Len(items) THEN [val |-> Dict(result), extends |-> extends]
  ELSE IF DictHas(result, items[i].k)
  THEN StoreStep(strategy, result, items, i,
                 MergeStep(strategy, DictGet(result, items[i].k), items[i].val,
                           StrategyOf(strategy, items[i].k), extends))
  ELSE MergeItemsInPlace(strategy, Append(result, items[i]), items, i + 1, extends)

\* DictMerge._merge_two
merge_two_in_place(strategy, d1, d2, extends) ==
  IF DictOf(d1).t = "raise" THEN [val |-> DictOf(d1), extends |-> extends]
  ELSE IF d2.t # "dict" THEN [val |-> Raise("AttributeError"), extends |-> extends]
  ELSE MergeItemsInPlace(strategy, DictOf(d1).v, d2.v, 1, extends)

RECURSIVE MergeFromInPlace(_, _, _, _)
\* the loop `for d in dicts[1:]` of DictMerge.merge
MergeFromInPlace(strategy, r, dicts, i) ==
  IF i > Len(dicts) \/ r.val.t = "raise" THEN r
  ELSE MergeFromInPlace(strategy,
                        merge_two_in_place(strategy, r.val, DictOf(dicts[i]), r.extends),
                        dicts, i + 1)

\* DictMerge.merge: the result and the extends of lists of the records
merge_in_place(strategy, dicts) ==
  IF dicts = <<>> THEN [val |-> Raise("IndexError"), extends |-> <<>>]
  ELSE MergeFromInPlace(strategy, [val |-> DictOf(Owned(dicts)[1]), extends |-> <<>>],
                        Owned(dicts), 2)

\* the content of the list at this path after the extends: that of its last
\* extend, its own when it was never extended
ListAfter(val, path, extends) ==
  IF \E n \in 1 .. Len(extends) : extends[n].own = path
  THEN Strip(List(extends[CHOOSE n \in 1 .. Len(extends) :
                            /\ extends[n].own = path
                            /\ \A n2 \in n + 1 .. Len(extends) : extends[n2].own # path].v))
  ELSE val

RECURSIVE ValueAfter(_, _, _)
ValueAfter(val, path, extends) ==
  CASE val.t = "list" -> ListAfter(val, path, extends)
    [] val.t = "dict" ->
         Dict([c \in 1 .. Len(val.v) |->
                 Item(val.v[c].k,
                      ValueAfter(val.v[c].val, Append(path, val.v[c].k), extends))])
    [] OTHER -> val

\* the records given to merge as the call leaves them
InputsAfter(strategy, dicts) ==
  [i \in 1 .. Len(dicts) |->
     ValueAfter(dicts[i], <<i>>, merge_in_place(strategy, dicts).extends)]

(***************************************************************************)
(* The records given to merge.  The i-th record of a list holds values     *)
(* 10*i + j, so that the record a merged value comes from is known.  Under *)
(* "x" a record holds nothing, a number, a list or a nested record; it may *)
(* hold a number under "unit".                                             *)
(***************************************************************************)
XShapes == {"absent", "scalar", "list", "unit", "unit_value", "value_list"}

XValue(i, xs) ==
  CASE xs = "scalar" -> Num(10 * i + 2)
    [] xs = "list" -> List(<< Num(10 * i + 2) >>)
    [] xs = "unit" -> Dict(<< Item("unit", Num(10 * i + 3)) >>)
    [] xs = "unit_value" ->
         Dict(<< Item("unit", Num(10 * i + 3)), Item("value", Num(10 * i + 4)) >>)
    [] OTHER -> Dict(<< Item("value", List(<< Num(10 * i + 4) >>)) >>)

MakeRecord(i, xs, top_unit) ==
  Dict((IF xs = "absent" THEN <<>> ELSE << Item("x", XValue(i, xs)) >>) \o
       (IF top_unit THEN << Item("unit", Num(10 * i + 1)) >> ELSE <<>>))

\* The keyword arguments of DictMerge(...): those of SpyviewWriter, none,
\* "replace" for every name, and a strategy name that _merge_two does not
\* know.
StrategyNames == {"spyview", "default", "replace", "unknown"}

StrategyNamed(name) ==
  CASE name = "spyview" ->
         [unit |-> "replace", value |-> "append", independent_parameter |-> "replace"]
    [] name = "replace" -> [unit |-> "replace", value |-> "replace", x |-> "replace"]
    [] name = "unknown" -> [unit |-> "replace", value |-> "append", x |-> "sum"]
    [] OTHER -> [independent_parameter |-> "dict_merge"]

\* No sweep object is iterated while a merger or a writer is at work.
NoShape ==
  [name |-> "none", root |-> 1, kind |-> [o \in Nodes |-> "unused"],
   children |-> NoChildren]

NoSweep ==
  /\ shape = NoShape.name
  /\ root = NoShape.root
  /\ kind = NoShape.kind
  /\ children = NoShape.children
  /\ points = [o \in Nodes |-> <<>>]
  /\ measure_functions = NoHooks
  /\ so = [o \in Nodes |-> InitObject(NoShape, o)]
  /\ log = <<>>
  /\ serial = 0
  /\ pc = "idle"

InitMerge ==
  /\ NoSweep
  /\ writer = NoWriter
  /\ formatter = NoFormatter /\ storage = NoStorage /\ measurement = NoMeasurement
  /\ \E n \in 1 .. MaxRecords :
       \E xs \in [1 .. n -> XShapes] : \E us \in [1 .. n -> BOOLEAN] :
         \E name \in StrategyNames :
           merger = [pc |-> "ready", strategy |-> name,
                     dicts |-> [i \in 1 .. n |-> MakeRecord(i, xs[i], us[i])],
                     left |-> [i \in 1 .. n |-> MakeRecord(i, xs[i], us[i])],
                     result |-> NoneValue]

\* result = DictMerge(**strategy).merge(dicts); left: dicts after the call
Merge ==
  /\ merger.pc = "ready"
  /\ merger' = [merger EXCEPT !.result = merge(StrategyNamed(merger.strategy), merger.dicts),
                              !.left = InputsAfter(StrategyNamed(merger.strategy), merger.dicts),
                              !.pc = "merged"]
  /\ UNCHANGED <<sweep, writer, formatter, storage, measurement>>

NextMerge == Merge

SpecMerge == InitMerge /\ [][NextMerge]_vars

(***************************************************************************)
(* C15: for a field name registered with the strategy "replace", the       *)
(* merged value is the value of the last record of the list that holds the *)
(* field, for a top-level key and for a field inside a nested record that  *)
(* is merged recursively.  Here every record holds either nothing or a     *)
(* nested record under "x", the strategy is that of SpyviewWriter, and     *)
(* "unit" is looked at on top level and inside "x".                        *)
(***************************************************************************)
\* The records of the list that hold "unit" on top level, and inside "x".
HoldTopUnit == {i \in 1 .. Len(merger.dicts) : DictHas(merger.dicts[i].v, "unit")}
HoldNestedUnit ==
  {i \in 1 .. Len(merger.dicts) :
     /\ DictHas(merger.dicts[i].v, "x")
     /\ DictHas(DictGet(merger.dicts[i].v, "x").v, "unit")}
Last(S) == CHOOSE i \in S : \A j \in S : j <= i

C15_ReplaceTakesLast ==
  (/\ merger.pc = "merged"
   /\ merger.strategy = "spyview"
   /\ \A i \in 1 .. Len(merger.dicts) :
        DictHas(merger.dicts[i].v, "x") => DictGet(merger.dicts[i].v, "x").t = "dict") =>
    /\ merger.result.t = "dict"
    /\ HoldTopUnit # {} =>
         DictGet(merger.result.v, "unit") =
           DictGet(merger.dicts[Last(HoldTopUnit)].v, "unit")
    /\ HoldNestedUnit # {} =>
         DictGet(DictGet(merger.result.v, "x").v, "unit") =
           DictGet(DictGet(merger.dicts[Last(HoldNestedUnit)].v, "x").v, "unit")

(***************************************************************************)
(* C16: merge is total: for every non-empty list of records whose values   *)
(* are numbers, lists or nested records, and for every strategy, it        *)
(* returns a mapping and raises nothing; the names that are not registered *)
(* are merged recursively.                                                 *)
(***************************************************************************)
C16_MergeIsTotal ==
  (merger.pc = "merged" /\ merger.dicts # <<>>) => merger.result.t = "dict"

(***************************************************************************)
(* SpyviewWriter (src/pysweep/data_storage/spyview.py).                    *)
(*                                                                         *)
(* The buffer is a dict label -> {value: list, unit, independent flag},    *)
(* kept with DictMerge.  An output handed to the writer function is the    *)
(* sequence of its lines; a data line is the sequence of its tab-separated *)
(* cells and a blank line is the empty sequence.                           *)
(***************************************************************************)
Str(s) == [t |-> "str", v |-> s]
Bool(b) == [t |-> "bool", v |-> b]

\* str(v) of a cell
str(v) == [str |-> v.v]
BlankLine == <<>>

DictKeys(items) == [i \in 1 .. Len(items) |-> items[i].k]
InSeq(s, x) == \E i \in 1 .. Len(s) : s[i] = x

\* DictMerge(unit="replace", value="append", independent_parameter="replace")
SpyviewStrategy == StrategyNamed("spyview")

\* self._buffer[key]["value"] as a sequence
ValuesOf(items, key) == DictGet(DictGet(items, key).v, "value").v

\* SpyviewWriter.collapse_axis: np.sum(ary != np.roll(ary, -1)), every
\* element against its successor and the last against the first
collapse_axis(lst) ==
  Cardinality({i \in 1 .. Len(lst) : lst[i] # lst[(i % Len(lst)) + 1]})

\* sorted(..., key=count, reverse=True): stable, equal counts stay in order
SortedDescending(keys, count) ==
  LET rank(i) == 1 + Cardinality({j \in 1 .. Len(keys) :
                     count[j] > count[i] \/ (count[j] = count[i] /\ j < i)})
  IN [r \in 1 .. Len(keys) |-> keys[CHOOSE i \in 1 .. Len(keys) : rank(i) = r]]

\* The labels of the buffer that carry the key "independent_parameter".
IndependentKeys(items) ==
  SelectSeq(DictKeys(items),
            LAMBDA k : DictHas(DictGet(items, k).v, "independent_parameter"))

\* SpyviewWriter._find_independent_parameters
find_independent_parameters(items) ==
  LET keys == IndependentKeys(items)
      count == [i \in 1 .. Len(keys) |-> collapse_axis(ValuesOf(items, keys[i]))]
  IN IF keys = <<>> THEN Raise("RuntimeError")
     ELSE List(SortedDescending(keys, count))

\* The entry _get_buffer_value("empty") stores in the buffer.
EmptyEntry(items, independent_parameters) ==
  Dict(<< Item("value", List([i \in 1 .. Len(ValuesOf(items, independent_parameters[1]))
                                |-> Num(0)])),
          Item("independent_parameter", Bool(TRUE)),
          Item("unit", Str("")) >>)

\* The buffer after _get_buffer_value(key) for every key of keys.
RECURSIVE RefreshEmpty(_, _, _, _)
RefreshEmpty(items, independent_parameters, keys, i) ==
  IF i > Len(keys) THEN items
  ELSE IF keys[i] = "empty"
       THEN RefreshEmpty(DictSet(items, "empty", EmptyEntry(items, independent_parameters)),
                         independent_parameters, keys, i + 1)
       ELSE RefreshEmpty(items, independent_parameters, keys, i + 1)

MinOf(S) == CHOOSE x \in S : \A y \in S : x <= y
MaxOf(S) == CHOOSE x \in S : \A y \in S : x >= y


\* {k: {"value": []} for k in keys}
EmptyValues(keys) ==
  Dict([i \in 1 .. Len(keys) |-> Item(keys[i], Dict(<<Item("value", List(<<>>))>>))])

\* The loop of _reshape_dictionary over dictionary.values(): a value of
\* length one is repeated max_size times.
Repeated(items, max_size) ==
  [i \in 1 .. Len(items) |->
     LET value == DictGet(items[i].val.v, "value").v
     IN IF Len(value) = 1
        THEN Item(items[i].k,
                  Dict(DictSet(items[i].val.v, "value",
                               List([j \in 1 .. max_size |-> value[1]]))))
        ELSE items[i]]

\* inner_axis_included: some entry of more than one value changes at every
\* step and carries the key "independent_parameter".
InnerAxisIncluded(items, max_size) ==
  /\ max_size > 1
  /\ \E i \in 1 .. Len(items) :
       LET value == DictGet(items[i].val.v, "value").v
       IN /\ Len(value) # 1
          /\ Len(value) = collapse_axis(value)
          /\ DictHas(items[i].val.v, "independent_parameter")

\* dictionary["index"] = {...}
IndexEntry(max_size) ==
  Dict(<< Item("unit", Str("#")),
          Item("value", List([i \in 1 .. max_size |-> Num(i - 1)])),
          Item("independent_parameter", Bool(TRUE)) >>)

\* SpyviewWriter._reshape_dictionary
reshape_dictionary(dictionary, delayed_parameters) ==
  LET merged == merge(SpyviewStrategy,
                      << dictionary, EmptyValues(delayed_parameters),
                         EmptyValues(DictKeys(dictionary.v)) >>)
  IN IF merged.t = "raise" THEN merged
     ELSE
       LET items == merged.v
           sizes == {Len(DictGet(items[i].val.v, "value").v) :
                       i \in {j \in 1 .. Len(items) :
                                ~InSeq(delayed_parameters, items[j].k)}}
       IN IF sizes = {} THEN merged
          ELSE IF \/ Cardinality(sizes) > 2
                  \/ (MinOf(sizes) # 1 /\ MaxOf(sizes) > 1)
               THEN Raise("ValueError")
               ELSE
                 LET max_size == MaxOf(sizes)
                     filled == IF max_size > 1 THEN Repeated(items, max_size) ELSE items
                 IN IF InnerAxisIncluded(items, max_size) THEN Dict(filled)
                    ELSE Dict(DictSet(filled, "index", IndexEntry(max_size)))

\* The lines of a metadata file: str(number), a name, and "name [unit]".
NumberLine(n) == [line |-> "number", n |-> n, label |-> "", unit |-> ""]
NameLine(label) == [line |-> "name", n |-> 0, label |-> label, unit |-> ""]
NameUnitLine(label, unit) == [line |-> "name [unit]", n |-> 0, label |-> label, unit |-> unit]

\* sorted(set(values)) of numbers
SortedSet(values) ==
  LET S == {values[i].v : i \in 1 .. Len(values)}
      F[i \in 0 .. Cardinality(S)] ==
        IF i = 0 THEN <<>>
        ELSE Append(F[i - 1], MinOf({x \in S : \A j \in 1 .. Len(F[i - 1]) : F[i - 1][j] < x}))
  IN F[Cardinality(S)]

\* SpyviewMetaWriter._update_axis_properties: length, min and max of an axis
AxisProperties(values) ==
  LET mn == values[1]
      mx == values[Len(values)]
  IN [min |-> mn, max |-> mx,
      length |-> IF Len(values) > 1 THEN ((mx - mn) \div (values[2] - mn)) + 1 ELSE 1]

\* SpyviewMetaWriter.add for one parameter, were every axis written as
\* length, min, max.
MetaLinesOf_minThenMax(buffer, parameter_name, column_nr, first) ==
  IF parameter_name = "none"
  THEN IF first
       THEN <<NumberLine(1), NumberLine(1), NumberLine(0), NameLine("none")>>
       ELSE <<NumberLine(1), NumberLine(0), NumberLine(1), NameLine("none")>>
  ELSE
    LET entry == DictGet(buffer, parameter_name).v
        name == NameUnitLine(parameter_name, DictGet(entry, "unit").v)
    IN IF DictHas(entry, "independent_parameter")
       THEN LET a == AxisProperties(SortedSet(DictGet(entry, "value").v))
            IN IF first
               THEN <<NumberLine(a.length), NumberLine(a.min), NumberLine(a.max), name>>
               ELSE <<NumberLine(a.length), NumberLine(a.min), NumberLine(a.max), name>>
       ELSE <<NumberLine(column_nr), name>>

\* The lines SpyviewMetaWriter.add gives for the parameter of column_nr
\* (from 0); first tells whether no axis came before it.
MetaLinesOf(buffer, parameter_name, column_nr, first) ==
  IF parameter_name = "none"
  THEN IF first
       THEN <<NumberLine(1), NumberLine(1), NumberLine(0), NameLine("none")>>
       ELSE <<NumberLine(1), NumberLine(0), NumberLine(1), NameLine("none")>>
  ELSE
    LET entry == DictGet(buffer, parameter_name).v
        name == NameUnitLine(parameter_name, DictGet(entry, "unit").v)
    IN IF DictHas(entry, "independent_parameter")
       THEN LET a == AxisProperties(SortedSet(DictGet(entry, "value").v))
            IN IF first
               THEN <<NumberLine(a.length), NumberLine(a.min), NumberLine(a.max), name>>
               ELSE <<NumberLine(a.length), NumberLine(a.max), NumberLine(a.min), name>>
       ELSE <<NumberLine(column_nr), name>>

\* Whether the parameter is written as an axis.
IsAxis(buffer, parameter_name) ==
  \/ parameter_name = "none"
  \/ DictHas(DictGet(buffer, parameter_name).v, "independent_parameter")

\* The exception SpyviewMetaWriter.add ends in at a parameter: KeyError
\* without a unit, IndexError for an axis without values, "" for none.
MetaErrorAt(buffer, parameter_name) ==
  IF parameter_name = "none" THEN ""
  ELSE IF ~DictHas(DictGet(buffer, parameter_name).v, "unit") THEN "KeyError"
  ELSE IF /\ IsAxis(buffer, parameter_name)
          /\ DictGet(DictGet(buffer, parameter_name).v, "value").v = <<>>
       THEN "IndexError"
  ELSE ""

\* SpyviewMetaWriter.add: the lines given to the writer function of the
\* metadata, or the exception of the first parameter that has one
meta_add(buffer, parameters) ==
  IF \E i \in 1 .. Len(parameters) : MetaErrorAt(buffer, parameters[i]) # ""
  THEN Raise(MetaErrorAt(buffer,
         parameters[MinOf({i \in 1 .. Len(parameters) :
                             MetaErrorAt(buffer, parameters[i]) # ""})]))
  ELSE
    LET F[i \in 0 .. Len(parameters)] ==
          IF i = 0 THEN <<>>
          ELSE F[i - 1] \o MetaLinesOf(buffer, parameters[i], i - 1,
                                       \A j \in 1 .. i - 1 : ~IsAxis(buffer, parameters[j]))
    IN List(F[Len(parameters)])

\* The writer after construction.
NewWriter(max_buffer_size, delayed_parameters) ==
  [pc |-> "open",
   max_buffer_size |-> max_buffer_size,
   delayed_parameters |-> delayed_parameters,
   buffer |-> <<>>,
   independent_parameters |-> <<>>,
   inner_sweep_start_value |-> NoneValue,
   outputs |-> <<>>,
   metas |-> <<>>,
   error |-> ""]

\* An exception leaves the call; the writer keeps what was assigned before.
Raised(w, name) == [w EXCEPT !.error = name]

\* The lines of the output, were the rows to go on to the end of the longest
\* column, each with the cells of the columns that reach it.
OutputLines_padded(buffer_values, block_indices) ==
  LET n == MaxOf({Len(buffer_values[c]) : c \in 1 .. Len(buffer_values)})
      cols(i) == SelectSeq([c \in 1 .. Len(buffer_values) |-> c],
                           LAMBDA c : i <= Len(buffer_values[c]))
      line(i) == [c \in 1 .. Len(cols(i)) |-> str(buffer_values[cols(i)[c]][i])]
      F[i \in 0 .. n] ==
        IF i = 0 THEN <<>>
        ELSE F[i - 1] \o (IF i > 1 /\ i <= Len(block_indices) /\ block_indices[i]
                          THEN <<BlankLine>> ELSE <<>>)
                      \o <<line(i)>>
  IN F[n]

\* The lines of the output: zip(escapes, zip(*buffer_values)), a block start
\* after the first line is preceded by a blank line.
OutputLines(buffer_values, block_indices) ==
  LET lengths == {Len(buffer_values[c]) : c \in 1 .. Len(buffer_values)}
                   \cup {Len(block_indices)}
      n == MinOf(lengths)
      line(i) == [c \in 1 .. Len(buffer_values) |-> str(buffer_values[c][i])]
      F[i \in 0 .. n] ==
        IF i = 0 THEN <<>>
        ELSE F[i - 1] \o (IF i > 1 /\ block_indices[i] THEN <<BlankLine>> ELSE <<>>)
                      \o <<line(i)>>
  IN F[n]

\* SpyviewWriter._write_buffer
write_buffer(w) ==
  LET found == IF w.independent_parameters = <<>>
               THEN find_independent_parameters(w.buffer)
               ELSE List(w.independent_parameters)
  IN IF found.t = "raise" THEN Raised(w, found.v)
     ELSE
       LET independent_parameters ==
             CASE Len(found.v) = 1 -> found.v \o <<"empty", "none">>
               [] Len(found.v) = 2 -> found.v \o <<"none">>
               [] OTHER -> found.v
           all_parameters ==
             independent_parameters
               \o SelectSeq(DictKeys(w.buffer),
                            LAMBDA k : ~InSeq(independent_parameters, k))
           present == SelectSeq(all_parameters, LAMBDA k : k # "none")
           buffer == RefreshEmpty(w.buffer, independent_parameters, present, 1)
           buffer_values == [c \in 1 .. Len(present) |-> ValuesOf(buffer, present[c])]
           inner_sweep_values == buffer_values[1]
       IN IF inner_sweep_values = <<>> THEN Raised(w, "IndexError")
          ELSE
            LET start == IF w.inner_sweep_start_value.t = "none"
                         THEN inner_sweep_values[1]
                         ELSE w.inner_sweep_start_value
                block_indices == [i \in 1 .. Len(inner_sweep_values) |->
                                    inner_sweep_values[i] = start]
                written ==
                  [w EXCEPT !.independent_parameters = independent_parameters,
                            !.inner_sweep_start_value = start,
                            !.buffer = buffer,
                            !.outputs = Append(@, OutputLines(buffer_values, block_indices))]
                meta == meta_add(buffer, all_parameters)
            IN IF meta.t = "raise" THEN Raised(written, meta.v)
               ELSE [written EXCEPT !.metas = Append(@, meta.v)]

\* SpyviewWriter._get_buffer_sizes
get_buffer_sizes(w) ==
  {Len(ValuesOf(w.buffer, w.buffer[i].k)) : i \in 1 .. Len(w.buffer)}

\* SpyviewWriter.add, were it to write on every add whatever the threshold.
add_writeOnEveryAdd(w, dictionary) ==
  LET reshaped == reshape_dictionary(dictionary, w.delayed_parameters)
  IN IF reshaped.t = "raise" THEN Raised(w, reshaped.v)
     ELSE
       LET merged == merge(SpyviewStrategy, <<reshaped, Dict(w.buffer)>>)
       IN IF merged.t = "raise" THEN Raised(w, merged.v)
          ELSE
            LET w1 == [w EXCEPT !.buffer =
                         RefreshEmpty(merged.v, w.independent_parameters,
                                      DictKeys(merged.v), 1)]
                buffer_size == MinOf(get_buffer_sizes(w1))
            IN IF get_buffer_sizes(w1) = {} THEN Raised(w1, "ValueError")
               ELSE IF buffer_size # 0
                    THEN write_buffer(w1)
                    ELSE w1

\* SpyviewWriter.add, were it to merge the buffer before the new record.
add_bufferFirst(w, dictionary) ==
  LET reshaped == reshape_dictionary(dictionary, w.delayed_parameters)
  IN IF reshaped.t = "raise" THEN Raised(w, reshaped.v)
     ELSE
       LET merged == merge(SpyviewStrategy, <<Dict(w.buffer), reshaped>>)
       IN IF merged.t = "raise" THEN Raised(w, merged.v)
          ELSE
            LET w1 == [w EXCEPT !.buffer =
                         RefreshEmpty(merged.v, w.independent_parameters,
                                      DictKeys(merged.v), 1)]
                buffer_size == MinOf(get_buffer_sizes(w1))
            IN IF get_buffer_sizes(w1) = {} THEN Raised(w1, "ValueError")
               ELSE IF buffer_size # 0 /\ buffer_size % w.max_buffer_size = 0
                    THEN write_buffer(w1)
                    ELSE w1

\* SpyviewWriter.add
add(w, dictionary) ==
  LET reshaped == reshape_dictionary(dictionary, w.delayed_parameters)
  IN IF reshaped.t = "raise" THEN Raised(w, reshaped.v)
     ELSE
       LET merged == merge(SpyviewStrategy, <<reshaped, Dict(w.buffer)>>)
       IN IF merged.t = "raise" THEN Raised(w, merged.v)
          ELSE
            LET w1 == [w EXCEPT !.buffer =
                         RefreshEmpty(merged.v, w.independent_parameters,
                                      DictKeys(merged.v), 1)]
                buffer_size == MinOf(get_buffer_sizes(w1))
            IN IF get_buffer_sizes(w1) = {} THEN Raised(w1, "ValueError")
               ELSE IF buffer_size # 0 /\ buffer_size % w.max_buffer_size = 0
                    THEN write_buffer(w1)
                    ELSE w1

\* SpyviewWriter.finalize, were it to write only a buffer of two rows or more.
finalize_ifTwoRows(w) ==
  LET written == IF \E n \in get_buffer_sizes(w) : n >= 2 THEN write_buffer(w) ELSE w
  IN IF written.error # "" THEN written ELSE [written EXCEPT !.pc = "final"]

\* SpyviewWriter.finalize
finalize(w) ==
  LET written == write_buffer(w)
  IN IF written.error # "" THEN written ELSE [written EXCEPT !.pc = "final"]


(***************************************************************************)
(* The records given to the writer: the rows of a sweep of an inner axis x *)
(* of n points under an outer axis y of m points, with a measured z that   *)
(* differs in every row.  x runs 0 .. n-1 in every block ("ramp") or goes  *)
(* 0, 1, 1, 0 ("zigzag"); flags are the labels marked as independent; the  *)
(* key order is the order of the labels in every record.                   *)
(***************************************************************************)
MaxInner == 3
MaxOuter == 2
MaxThreshold == 3

KeyOrders ==
  { <<"x", "z">>, <<"z", "x">>, <<"x", "y", "z">>, <<"y", "x", "z">>, <<"z", "y", "x">> }
Patterns == {"ramp", "zigzag"}
UnitOf(label) == Str(label)

Zigzag(i) == IF i % 4 \in {1, 2} THEN 1 ELSE 0

\* the value of label in row i (from 0) of the grid
RowValue(label, i, n, pattern) ==
  CASE label = "x" -> IF pattern = "ramp" THEN i % n ELSE Zigzag(i)
    [] label = "y" -> i \div n
    [] OTHER -> 50 + i

Entry(label, value, flags) ==
  Dict(<< Item("unit", UnitOf(label)), Item("value", Num(value)) >>
       \o (IF label \in flags THEN <<Item("independent_parameter", Bool(TRUE))>> ELSE <<>>))

GridRecords(n, m, pattern, flags, order) ==
  [r \in 1 .. n * m |->
     Dict([c \in 1 .. Len(order) |->
             Item(order[c], Entry(order[c], RowValue(order[c], r - 1, n, pattern), flags))])]

InitWriter ==
  /\ NoSweep /\ merger = NoMerger
  /\ formatter = NoFormatter /\ storage = NoStorage /\ measurement = NoMeasurement
  /\ \E n \in 1 .. MaxInner, m \in 1 .. MaxOuter, pattern \in Patterns,
        order \in KeyOrders, max_buffer_size \in 1 .. MaxThreshold :
     \E flags \in SUBSET {label \in {"x", "y"} : InSeq(order, label)} :
       writer = [w |-> NewWriter(max_buffer_size, <<>>),
                 records |-> GridRecords(n, m, pattern, flags, order),
                 added |-> 0,
                 n |-> n, m |-> m, pattern |-> pattern, flags |-> flags, order |-> order]

\* writer.add(record) with the next record of the sweep
Add ==
  /\ writer.w.pc = "open"
  /\ writer.added < Len(writer.records)
  /\ writer' = [writer EXCEPT !.w = add([writer.w EXCEPT !.error = ""],
                                        writer.records[writer.added + 1]),
                              !.added = @ + 1]
  /\ UNCHANGED <<sweep, merger, formatter, storage, measurement>>

\* The writer as its caller leaves it: an exception ends the caller, which
\* makes no further call ("raised").
LeftByCaller(w) == IF w.error # "" THEN [w EXCEPT !.pc = "raised"] ELSE w

\* writer.finalize()
Finalize ==
  /\ writer.w.pc = "open"
  /\ writer' = [writer EXCEPT !.w = LeftByCaller(finalize([writer.w EXCEPT !.error = ""]))]
  /\ UNCHANGED <<sweep, merger, formatter, storage, measurement>>

NextWriter == Add \/ Finalize

SpecWriter == InitWriter /\ [][NextWriter]_vars


(***************************************************************************)
(* Claims about the SpyviewWriter.                                         *)
(***************************************************************************)
\* The number of rows of the buffer whose value differs from the row before.
AdjacentChanges(lst) ==
  Cardinality({i \in 1 .. Len(lst) - 1 : lst[i] # lst[i + 1]})

\* The step at which the writer determines its axis order.
AxisOrderDetermined ==
  /\ writer.w.independent_parameters = <<>>
  /\ writer'.w.independent_parameters # <<>>

\* i before j in the axis order
RankedBefore(axes, a, b) ==
  \E i, j \in 1 .. Len(axes) : i < j /\ axes[i] = a /\ axes[j] = b

\* C17: when the writer determines the axis order, a flagged label whose
\* value changes between more adjacent buffered rows than that of another
\* flagged label is ranked before it, whatever the order of the keys in the
\* records.
C17_FasterAxisFirst ==
  [][AxisOrderDetermined =>
       \A a, b \in writer.flags :
         AdjacentChanges(ValuesOf(writer'.w.buffer, a))
             > AdjacentChanges(ValuesOf(writer'.w.buffer, b))
           => RankedBefore(writer'.w.independent_parameters, a, b)]_vars


\* C18: when no label of the added records is flagged independent_parameter
\* the writer determines no axis order and writes nothing, and with a flush
\* threshold of 1 every add ends in RuntimeError.
C18_NoAxisRaises ==
  writer.flags = {} =>
    /\ writer.w.independent_parameters = <<>>
    /\ writer.w.outputs = <<>>
    /\ (writer.w.max_buffer_size = 1 /\ writer.added >= 1 /\ writer.w.pc = "open"
          => writer.w.error = "RuntimeError")


\* The lines of an output that hold data.
DataLines(out) == SelectSeq(out, LAMBDA l : l # BlankLine)

\* the cell of label in row i (from 1) of the records given to the writer
Cell(label, i) ==
  str(Num(RowValue(label, i - 1, writer.n, writer.pattern)))

\* C19: with the single independent axis x and one dependent label the axes
\* are padded to x, 'empty', 'none' and every output row is x, 0 and the
\* dependent value; with the two independent axes x and y only 'none' is
\* added and every output row has the three columns of the record.
C19_PlaceholderAxes ==
  writer.w.independent_parameters # <<>> =>
    /\ (writer.flags = {"x"} /\ Len(writer.order) = 2) =>
         /\ writer.w.independent_parameters = <<"x", "empty", "none">>
         /\ \A o \in 1 .. Len(writer.w.outputs) :
              \A i \in 1 .. Len(DataLines(writer.w.outputs[o])) :
                DataLines(writer.w.outputs[o])[i]
                  = <<Cell("x", i), str(Num(0)), Cell("z", i)>>
    /\ writer.flags = {"x", "y"} =>
         /\ writer.w.independent_parameters \in
              {<<"x", "y", "none">>, <<"y", "x", "none">>}
         /\ ~DictHas(writer.w.buffer, "empty")
         /\ \A o \in 1 .. Len(writer.w.outputs) :
              \A i \in 1 .. Len(DataLines(writer.w.outputs[o])) :
                Len(DataLines(writer.w.outputs[o])[i]) = 3


\* The output that the last call of the writer function left.
LastOutput == writer.w.outputs[Len(writer.w.outputs)]

\* The positions of the lines of out that follow a blank line.
AfterBlank(out) == {i \in 2 .. Len(out) : out[i - 1] = BlankLine}

\* C20: for the rows of a grid of n inner points x under m outer points y
\* the output after finalize holds exactly m*n data rows in arrival order,
\* each x, y and z, and a blank line stands before exactly the rows other than
\* the first whose x is the first value of x: m-1 blank lines, none of them
\* first.
C20_GridOutput ==
  ( /\ writer.w.pc = "final"
    /\ writer.added = writer.n * writer.m
    /\ writer.flags = {"x", "y"}
    /\ writer.pattern = "ramp" ) =>
      LET out == LastOutput
          rows == DataLines(out)
      IN /\ Len(rows) = writer.m * writer.n
         /\ \A i \in 1 .. Len(rows) : rows[i] = <<Cell("x", i), Cell("y", i), Cell("z", i)>>
         /\ Cardinality({i \in 1 .. Len(out) : out[i] = BlankLine}) = writer.m - 1
         /\ out[1] # BlankLine
         /\ \A i \in 2 .. Len(out) :
              out[i] # BlankLine =>
                (i \in AfterBlank(out) <=> out[i][1] = str(Num(0)))


\* The writer after add was called with the first k of the records.
RECURSIVE AddAll(_, _, _)
AddAll(w, records, k) ==
  IF k = 0 THEN w
  ELSE add([AddAll(w, records, k - 1) EXCEPT !.error = ""], records[k])

\* The writer after all the records were added to a new writer of the given
\* threshold and finalize was called.
RunWriter(records, max_buffer_size) ==
  finalize([AddAll(NewWriter(max_buffer_size, <<>>), records, Len(records))
              EXCEPT !.error = ""])

\* What the writer function was given last: the content of the output.
SinkOf(w) == IF w.outputs = <<>> THEN <<>> ELSE w.outputs[Len(w.outputs)]

\* C21: the output after all records and finalize is the same for every
\* flush threshold.
C21_ThresholdIndependent ==
  (writer.w.pc = "final" /\ writer.added = Len(writer.records)) =>
    \A T \in 1 .. MaxThreshold :
      SinkOf(RunWriter(writer.records, T)) = SinkOf(writer.w)


NewMetaWriter(independent_params) ==
  [independent_params |-> independent_params,
   axis_values |-> [i \in 1 .. Len(independent_params) |-> <<>>],
   perform_update |-> FALSE]

\* _SpyviewMetaWriter.add, from parameter i on: the meta writer after the
\* call and the exception that left it; a record without the parameter
\* raises KeyError.
RECURSIVE MetaAddFrom(_, _, _)
MetaAddFrom(mw, dictionary, i) ==
  IF i > Len(mw.independent_params) THEN [mw |-> mw, error |-> ""]
  ELSE LET p == mw.independent_params[i]
       IN IF ~DictHas(dictionary.v, p) \/ ~DictHas(DictGet(dictionary.v, p).v, "value")
          THEN [mw |-> mw, error |-> "KeyError"]
          ELSE LET v == DictGet(DictGet(dictionary.v, p).v, "value")
               IN IF InSeq(mw.axis_values[i], v)
                  THEN MetaAddFrom(mw, dictionary, i + 1)
                  ELSE MetaAddFrom([mw EXCEPT !.axis_values[i] = Append(@, v),
                                              !.perform_update = TRUE],
                                   dictionary, i + 1)

\* min(axis_values) and max(axis_values) of numbers
MinValue(values) == MinOf({values[i].v : i \in 1 .. Len(values)})
MaxValue(values) == MaxOf({values[i].v : i \in 1 .. Len(values)})

\* The lines _SpyviewMetaWriter.update_meta_file writes: len, min, max and
\* the name for the first parameter, len, max, min and the name for the
\* others, and 1, 0, 1, none when the parameters are two.
MetaFileLines(mw) ==
  LET props(i) ==
        IF i = 1
        THEN << NumberLine(Len(mw.axis_values[i])), NumberLine(MinValue(mw.axis_values[i])),
                NumberLine(MaxValue(mw.axis_values[i])), NameLine(mw.independent_params[i]) >>
        ELSE << NumberLine(Len(mw.axis_values[i])), NumberLine(MaxValue(mw.axis_values[i])),
                NumberLine(MinValue(mw.axis_values[i])), NameLine(mw.independent_params[i]) >>
      F[i \in 0 .. Len(mw.independent_params)] ==
        IF i = 0 THEN <<>> ELSE F[i - 1] \o props(i)
  IN F[Len(mw.independent_params)]
       \o (IF Len(mw.independent_params) = 2
           THEN << NumberLine(1), NumberLine(0), NumberLine(1), NameLine("none") >>
           ELSE <<>>)

\* SpyviewFormatter.__init__
NewFormatter(max_buffer_size, independent_parameters) ==
  [pc |-> "open",
   max_buffer_size |-> max_buffer_size,
   buffer |-> <<>>,
   buffer_size_counter |-> 0,
   started |-> FALSE,
   independent_params |-> independent_parameters,
   inner_sweep_start_value |-> NoneValue,
   meta_writer |-> NewMetaWriter(<<>>),
   file |-> <<>>,
   meta_file |-> <<>>,
   writes |-> 0,
   error |-> ""]

\* The lines appended to the file: every row behind its escape, "\n\n" at
\* a block start and "\n" otherwise.
AppendedLines(buffer_values, block_indices) ==
  LET lengths == {Len(buffer_values[c]) : c \in 1 .. Len(buffer_values)}
                   \cup {Len(block_indices)}
      n == MinOf(lengths)
      line(i) == [c \in 1 .. Len(buffer_values) |-> str(buffer_values[c][i])]
      F[i \in 0 .. n] ==
        IF i = 0 THEN <<>>
        ELSE F[i - 1] \o (IF block_indices[i] THEN <<BlankLine>> ELSE <<>>) \o <<line(i)>>
  IN F[n]

\* SpyviewFormatter._write_buffer, were it to keep its buffer.
formatter_write_buffer_keepsBuffer(f) ==
  LET params == f.independent_params
                  \o SelectSeq(DictKeys(f.buffer),
                               LAMBDA k : ~InSeq(f.independent_params, k))
  IN IF \E i \in 1 .. Len(params) :
          \/ ~DictHas(f.buffer, params[i])
          \/ ~DictHas(DictGet(f.buffer, params[i]).v, "value")
     THEN Raised(f, "KeyError")
     ELSE
       LET values == [c \in 1 .. Len(params) |->
                        DictGet(DictGet(f.buffer, params[c]).v, "value")]
       IN IF \E c \in 1 .. Len(params) : values[c].t # "list"
          THEN Raised(f, "TypeError")
          ELSE IF params = <<>> \/ values[1].v = <<>>
          THEN Raised(f, "IndexError")
          ELSE
            LET buffer_values == [c \in 1 .. Len(params) |-> values[c].v]
                inner_sweep_values == buffer_values[1]
                start == IF f.inner_sweep_start_value.t = "none"
                         THEN inner_sweep_values[1]
                         ELSE f.inner_sweep_start_value
                block_indices == [i \in 1 .. Len(inner_sweep_values) |->
                                    inner_sweep_values[i] = start]
            IN [f EXCEPT !.inner_sweep_start_value = start,
                         !.file = @ \o AppendedLines(buffer_values, block_indices),
                         !.writes = @ + 1]

\* SpyviewFormatter._write_buffer
formatter_write_buffer(f) ==
  LET params == f.independent_params
                  \o SelectSeq(DictKeys(f.buffer),
                               LAMBDA k : ~InSeq(f.independent_params, k))
  IN IF \E i \in 1 .. Len(params) :
          \/ ~DictHas(f.buffer, params[i])
          \/ ~DictHas(DictGet(f.buffer, params[i]).v, "value")
     THEN Raised(f, "KeyError")
     ELSE
       LET values == [c \in 1 .. Len(params) |->
                        DictGet(DictGet(f.buffer, params[c]).v, "value")]
       IN IF \E c \in 1 .. Len(params) : values[c].t # "list"
          THEN Raised(f, "TypeError")
          ELSE IF params = <<>> \/ values[1].v = <<>>
          THEN Raised(f, "IndexError")
          ELSE
            LET buffer_values == [c \in 1 .. Len(params) |-> values[c].v]
                inner_sweep_values == buffer_values[1]
                start == IF f.inner_sweep_start_value.t = "none"
                         THEN inner_sweep_values[1]
                         ELSE f.inner_sweep_start_value
                block_indices == [i \in 1 .. Len(inner_sweep_values) |->
                                    inner_sweep_values[i] = start]
            IN [f EXCEPT !.inner_sweep_start_value = start,
                         !.file = @ \o AppendedLines(buffer_values, block_indices),
                         !.writes = @ + 1,
                         !.buffer = <<>>,
                         !.buffer_size_counter = 0]

\* SpyviewFormatter._begin
begin(f, dictionary) ==
  LET found == IF f.independent_params # <<>> THEN f.independent_params
               ELSE SelectSeq(DictKeys(dictionary.v),
                              LAMBDA k : DictHas(DictGet(dictionary.v, k).v,
                                                 "independent_parameter"))
  IN IF found = <<>> THEN Raised(f, "IndexError")
     ELSE [f EXCEPT !.independent_params = found,
                    !.meta_writer = NewMetaWriter(found),
                    !.started = TRUE]

\* _SpyviewMetaWriter.update_meta_file, called by SpyviewFormatter.add
update_meta_file(f) ==
  IF ~f.meta_writer.perform_update THEN f
  ELSE [f EXCEPT !.meta_writer.perform_update = FALSE,
                 !.meta_file = MetaFileLines(f.meta_writer)]

\* SpyviewFormatter.add
formatter_add(f, dictionary) ==
  LET f1 == IF f.started THEN f ELSE begin(f, dictionary)
  IN IF f1.error # "" THEN f1
     ELSE
       LET added == MetaAddFrom(f1.meta_writer, dictionary, 1)
           mw == added.mw
       IN IF added.error # ""
          THEN Raised([f1 EXCEPT !.meta_writer = mw], added.error)
          ELSE
            LET merged == merge(SpyviewStrategy, <<dictionary, Dict(f1.buffer)>>)
            IN IF merged.t = "raise" THEN Raised([f1 EXCEPT !.meta_writer = mw], merged.v)
               ELSE
                 LET f2 == [f1 EXCEPT !.meta_writer = mw,
                                      !.buffer = merged.v,
                                      !.buffer_size_counter = @ + 1]
                     has_delayed_values ==
                       \E i \in 1 .. Len(f2.independent_params) :
                         ~DictHas(f2.buffer, f2.independent_params[i])
                 IN IF has_delayed_values
                       \/ f2.buffer_size_counter < f2.max_buffer_size
                    THEN f2
                    ELSE LET written == formatter_write_buffer(f2)
                         IN IF written.error # "" THEN written
                            ELSE update_meta_file(written)

\* SpyviewFormatter.finalize
formatter_finalize(f) ==
  LET written == IF f.buffer_size_counter > 1 THEN formatter_write_buffer(f) ELSE f
  IN IF written.error # "" THEN written ELSE [written EXCEPT !.pc = "final"]


\* The writer and the formatter are given the same records, each by its own
\* calls of add and finalize.
InitFormatter ==
  /\ NoSweep /\ merger = NoMerger
  /\ storage = NoStorage /\ measurement = NoMeasurement
  /\ \E n \in 1 .. MaxInner, m \in 1 .. MaxOuter,
        order \in KeyOrders, max_buffer_size \in 1 .. MaxThreshold :
     \E flags \in SUBSET {label \in {"x", "y"} : InSeq(order, label)} :
       /\ writer = [w |-> NewWriter(max_buffer_size, <<>>),
                    records |-> GridRecords(n, m, "ramp", flags, order),
                    added |-> 0,
                    n |-> n, m |-> m, pattern |-> "ramp", flags |-> flags, order |-> order]
       /\ formatter = [f |-> NewFormatter(max_buffer_size, <<>>), added |-> 0]

\* formatter.add(record) with the next record
FormatterAdd ==
  /\ formatter.f.pc = "open"
  /\ formatter.added < Len(writer.records)
  /\ formatter' = [formatter EXCEPT
                     !.f = formatter_add([formatter.f EXCEPT !.error = ""],
                                         writer.records[formatter.added + 1]),
                     !.added = @ + 1]
  /\ UNCHANGED <<sweep, merger, writer, storage, measurement>>

\* formatter.finalize()
FormatterFinalize ==
  /\ formatter.f.pc = "open"
  /\ formatter' = [formatter EXCEPT
                     !.f = formatter_finalize([formatter.f EXCEPT !.error = ""])]
  /\ UNCHANGED <<sweep, merger, writer, storage, measurement>>

NextFormatter == Add \/ Finalize \/ FormatterAdd \/ FormatterFinalize

SpecFormatter == InitFormatter /\ [][NextFormatter]_vars


\* The rows in the buffer of the writer; the buffer is never emptied.
BufferedRows(w) == IF w.buffer = <<>> THEN 0 ELSE MinOf(get_buffer_sizes(w))

\* A step that is a call of finalize on the writer, and on the formatter.
WriterFinalizeStep ==
  writer.w.pc = "open" /\ writer'.added = writer.added /\ writer' # writer
FormatterFinalizeStep ==
  formatter.f.pc = "open" /\ formatter'.added = formatter.added
    /\ formatter' # formatter

WriterWrites == Len(writer'.w.outputs) = Len(writer.w.outputs) + 1
FormatterWrites == formatter'.f.writes = formatter.f.writes + 1

\* C23 as stated: finalize writes the buffer if and only if it holds two
\* rows or more, and with no row or one row it writes nothing and raises
\* nothing.
C23_Original ==
  [][/\ WriterFinalizeStep =>
          /\ WriterWrites <=> BufferedRows(writer.w) >= 2
          /\ BufferedRows(writer.w) <= 1 => writer'.w.error = ""
     /\ FormatterFinalizeStep =>
          /\ FormatterWrites <=> formatter.f.buffer_size_counter >= 2
          /\ formatter.f.buffer_size_counter <= 1 => formatter'.f.error = ""]_vars

\* C23: SpyviewFormatter.finalize appends the buffer to the file if and only
\* if two or more records were added since the last write, and otherwise
\* writes nothing and raises nothing, so that a single buffered record is never
\* written.  SpyviewWriter.finalize writes the whole buffer whenever a record
\* was added, also when it holds one row, and raises RuntimeError without
\* writing when no record was added.
C23_Finalize ==
  [][/\ WriterFinalizeStep =>
          /\ BufferedRows(writer.w) >= 1 =>
               /\ WriterWrites
               /\ writer'.w.error = "" /\ writer'.w.pc = "final"
               /\ Len(DataLines(SinkOf(writer'.w))) = BufferedRows(writer.w)
          /\ BufferedRows(writer.w) = 0 =>
               /\ writer'.w.outputs = writer.w.outputs
               /\ writer'.w.error = "RuntimeError"
     /\ FormatterFinalizeStep =>
          /\ FormatterWrites <=> formatter.f.buffer_size_counter >= 2
          /\ formatter.f.buffer_size_counter <= 1 => formatter'.f.file = formatter.f.file
          /\ formatter'.f.error = "" /\ formatter'.f.pc = "final"]_vars

\* Under threshold 2 the writer was finalized with one row, which it wrote, and
\* the formatter with the third of three rows, which it did not write.
C23_Witness ==
  /\ writer.w.max_buffer_size = 2
  /\ writer.w.pc = "final" /\ writer.added = 1
  /\ Len(DataLines(SinkOf(writer.w))) = 1
  /\ formatter.f.pc = "final" /\ formatter.added = 3
  /\ formatter.f.buffer_size_counter = 1
  /\ Len(DataLines(formatter.f.file)) = 2


\* The values of a label in the first k records given to the writer; the
\* labels index and empty, which the writer makes, hold 0.
ValuesSeen(label, k) ==
  IF label \in {"index", "empty"} THEN {0}
  ELSE {RowValue(label, i - 1, writer.n, writer.pattern) : i \in 1 .. k}

\* The four lines of an axis and the block of the axis none.
AxisBlock(first, length, mn, mx, name) ==
  IF first THEN <<NumberLine(length), NumberLine(mn), NumberLine(mx), name>>
  ELSE <<NumberLine(length), NumberLine(mx), NumberLine(mn), name>>
NoneBlock == <<NumberLine(1), NumberLine(0), NumberLine(1), NameLine("none")>>

\* The labels of the records that are flagged, and those that are not, in
\* the order of the keys.
FlaggedKeys == SelectSeq(writer.order, LAMBDA k : k \in writer.flags)
DependentKeys == SelectSeq(writer.order, LAMBDA k : k \notin writer.flags)

\* The sidecar as C24 states it: per axis the number of its values, min and
\* max (max and min after the first axis) and its name, and the block of none
\* when the axes are fewer than three.
ClaimedSidecar(axes, k) ==
  LET F[i \in 0 .. Len(axes)] ==
        IF i = 0 THEN <<>>
        ELSE F[i - 1] \o AxisBlock(i = 1, Cardinality(ValuesSeen(axes[i], k)),
                                   MinOf(ValuesSeen(axes[i], k)),
                                   MaxOf(ValuesSeen(axes[i], k)), NameLine(axes[i]))
  IN F[Len(axes)] \o (IF Len(axes) < 3 THEN NoneBlock ELSE <<>>)

\* The steps that write the sidecar of the formatter and of the writer.
FormatterWritesMeta == formatter'.f.meta_file # formatter.f.meta_file
WriterWritesMeta == Len(writer'.w.metas) = Len(writer.w.metas) + 1

\* The axes of the writer that hold data.
RealAxes(axes) == SelectSeq(axes, LAMBDA k : k # "none")

UnitIn(label) ==
  CASE label = "index" -> "#"
    [] label = "empty" -> ""
    [] OTHER -> UnitOf(label).v

\* (max - min) / step + 1, step being the distance of the two least values
SteppedLength(S) ==
  IF Cardinality(S) = 1 THEN 1
  ELSE (MaxOf(S) - MinOf(S)) \div (MinOf(S \ {MinOf(S)}) - MinOf(S)) + 1

\* The sidecar of the formatter: the flagged labels in the order of the keys
\* of the first record, named by their label, and the block of none when
\* they are exactly two.
FormatterSidecar(k) ==
  LET axes == FlaggedKeys
      F[i \in 0 .. Len(axes)] ==
        IF i = 0 THEN <<>>
        ELSE F[i - 1] \o AxisBlock(i = 1, Cardinality(ValuesSeen(axes[i], k)),
                                   MinOf(ValuesSeen(axes[i], k)),
                                   MaxOf(ValuesSeen(axes[i], k)), NameLine(axes[i]))
  IN F[Len(axes)] \o (IF Len(axes) = 2 THEN NoneBlock ELSE <<>>)

\* The sidecar of the writer: its axes in axis order, the made axes index
\* and empty among them, named "label [unit]" with the length taken from the
\* step, the block of none where none is an axis, and two lines, column number
\* and "label [unit]", for every other column.
WriterSidecar(axes, k) ==
  LET columns == axes \o SelectSeq(DependentKeys, LAMBDA d : ~InSeq(axes, d))
      F[i \in 0 .. Len(columns)] ==
        IF i = 0 THEN <<>>
        ELSE F[i - 1] \o
             (IF i > Len(axes)
              THEN <<NumberLine(i - 1), NameUnitLine(columns[i], UnitIn(columns[i]))>>
              ELSE IF columns[i] = "none" THEN NoneBlock
              ELSE AxisBlock(i = 1, SteppedLength(ValuesSeen(columns[i], k)),
                             MinOf(ValuesSeen(columns[i], k)),
                             MaxOf(ValuesSeen(columns[i], k)),
                             NameUnitLine(columns[i], UnitIn(columns[i]))))
  IN F[Len(columns)]

MaxBatch == 3

DelayedOrders == {order \in KeyOrders : InSeq(order, "y")} \cup { <<"x", "z", "y">> }

\* the y values of the rows from up to to (from 1)
BulkValues(from, to, n) ==
  List([i \in 1 .. to - from + 1 |-> Num(RowValue("y", from + i - 2, n, "ramp"))])

BulkEntry(from, to, n) ==
  Dict(<< Item("unit", UnitOf("y")), Item("value", BulkValues(from, to, n)),
          Item("independent_parameter", Bool(TRUE)) >>)

\* the record of row r (from 1): y only in every batch-th record
DelayedRecord(r, n, batch, order) ==
  LET keys == SelectSeq(order, LAMBDA k : k # "y" \/ r % batch = 0)
  IN Dict([c \in 1 .. Len(keys) |->
             Item(keys[c],
                  IF keys[c] = "y" THEN BulkEntry(r - batch + 1, r, n)
                  ELSE Entry(keys[c], RowValue(keys[c], r - 1, n, "ramp"), {"x", "y"}))])

DelayedRecords(n, m, batch, order) ==
  LET rows == [r \in 1 .. n * m |-> DelayedRecord(r, n, batch, order)]
      left == (n * m) % batch
  IN IF left = 0 THEN rows
     ELSE Append(rows, Dict(<<Item("y", BulkEntry(n * m - left + 1, n * m, n))>>))

InitDelayed ==
  /\ NoSweep /\ merger = NoMerger
  /\ formatter = NoFormatter /\ storage = NoStorage /\ measurement = NoMeasurement
  /\ \E n \in 1 .. MaxInner, m \in 1 .. MaxOuter, batch \in 1 .. MaxBatch,
        order \in DelayedOrders, max_buffer_size \in 1 .. MaxThreshold :
       writer = [w |-> NewWriter(max_buffer_size, <<"y">>),
                 records |-> DelayedRecords(n, m, batch, order),
                 direct |-> GridRecords(n, m, "ramp", {"x", "y"}, order),
                 added |-> 0,
                 n |-> n, m |-> m, pattern |-> "ramp", flags |-> {"x", "y"},
                 order |-> order, batch |-> batch]

SpecDelayed == InitDelayed /\ [][NextWriter]_vars



\* C25: with y declared delayed and its values delivered in bulk lists, all
\* before finalize, the output after finalize is the output of the stream in
\* which every record holds its own y.
C25_DelayedSameAsDirect ==
  (writer.w.pc # "open" /\ writer.added = Len(writer.records)) =>
    SinkOf(writer.w) = SinkOf(RunWriter(writer.direct, writer.w.max_buffer_size))



(***************************************************************************)
(* JSONStorage (src/pysweep/data_storage/json.py): the records are kept in *)
(* a list and merged when the output of a label is asked for.  A Python    *)
(* list is an object: _make_list returns the list it is given and extend   *)
(* changes it in place, so the merge can change a list that a stored       *)
(* record holds.  alias[k] tells which stored record, if any, owns the     *)
(* list that is the value of label k in the dictionary being built (0: a   *)
(* list made by the merge).                                                *)
(***************************************************************************)
\* Longest stream of records given to the storage, and the most calls of
\* output on one storage.
MaxStored == 3
MaxOutputCalls == 2

StorageLabels == {"A", "B"}
AskedNames == StorageLabels \cup {"C"}

\* JSONStorage.__init__
NewStorage ==
  [pc |-> "open", buffer |-> <<>>, unique_names |-> {}, result |-> NoneValue,
   name |-> "", calls |-> 0]

\* JSONStorage.add
storage_add(s, dictionary) ==
  [s EXCEPT !.unique_names = @ \cup {dictionary.v[i].k : i \in 1 .. Len(dictionary.v)},
            !.buffer = Append(@, dictionary)]

\* Is the value of label k of the dictionary a list?
HoldsList(items, k) ==
  /\ DictHas(items, k)
  /\ DictHas(DictGet(items, k).v, "value")
  /\ DictGet(DictGet(items, k).v, "value").t = "list"

\* The owner of the value list of label k after `d = self.merge([ibuffer, d])`
\* with the j-th stored record: a label that d takes from the record shares
\* the list of the record; a list of d that is extended stays the same object;
\* a number in d is put in a new list.
AliasAfter(d, alias, ibuffer, j, k) ==
  IF ~DictHas(ibuffer.v, k) THEN alias[k]
  ELSE IF ~DictHas(d, k) \/ ~DictHas(DictGet(d, k).v, "value")
       THEN IF HoldsList(ibuffer.v, k) THEN j ELSE 0
       ELSE IF HoldsList(d, k) THEN alias[k] ELSE 0

\* The stored records after the merge: m.extend(...) has changed the list of
\* the record that owns the value list of a label of d.
BufferAfter(buffer, d, alias, ibuffer, merged) ==
  [i \in 1 .. Len(buffer) |->
     Dict([c \in 1 .. Len(buffer[i].v) |->
             LET k == buffer[i].v[c].k
             IN IF /\ DictHas(d, k) /\ DictHas(ibuffer.v, k)
                   /\ HoldsList(d, k) /\ alias[k] = i
                   /\ DictHas(DictGet(ibuffer.v, k).v, "value")
                THEN Item(k, Dict(DictSet(buffer[i].v[c].val.v, "value",
                                          DictGet(DictGet(merged.v, k).v, "value"))))
                ELSE buffer[i].v[c]])]

RECURSIVE OutputFrom(_, _, _, _, _)
\* the loop `for ibuffer in self.buffer` of JSONStorage.output, from record j on
OutputFrom(name, buffer, d, alias, j) ==
  IF j > Len(buffer) THEN [result |-> Dict(d), buffer |-> buffer]
  ELSE IF ~DictHas(buffer[j].v, name) THEN OutputFrom(name, buffer, d, alias, j + 1)
  ELSE
    LET merged == merge(SpyviewStrategy, <<buffer[j], Dict(d)>>)
    IN IF merged.t = "raise" THEN [result |-> merged, buffer |-> buffer]
       ELSE OutputFrom(name,
                       BufferAfter(buffer, d, alias, buffer[j], merged),
                       merged.v,
                       [k \in StorageLabels |-> AliasAfter(d, alias, buffer[j], j, k)],
                       j + 1)

\* JSONStorage.output: the result and the storage after the call
output(s, name) ==
  IF name \notin s.unique_names
  THEN [s EXCEPT !.result = Raise("ValueError"), !.name = name, !.calls = @ + 1]
  ELSE LET out == OutputFrom(name, s.buffer, <<>>, [k \in StorageLabels |-> 0], 1)
       IN [s EXCEPT !.result = out.result, !.buffer = out.buffer,
                    !.name = name, !.calls = @ + 1]

(***************************************************************************)
(* The records given to the storage: record r holds A, B or both, as a     *)
(* number or as a list of two numbers, and every value tells its record.   *)
(***************************************************************************)
StoredShapes == {<<"A">>, <<"B">>, <<"A", "B">>}
StoredKinds == {"scalar", "list"}

StoredValue(r, label, valkind) ==
  LET base == 10 * r + (IF label = "A" THEN 1 ELSE 5)
  IN IF valkind = "scalar" THEN Num(base) ELSE List(<<Num(base), Num(base + 1)>>)

StoredRecord(r, labels, valkind) ==
  Dict([c \in 1 .. Len(labels) |->
          Item(labels[c], Dict(<< Item("unit", Str(IF labels[c] = "A" THEN "u1" ELSE "u2")),
                                  Item("value", StoredValue(r, labels[c], valkind)) >>))])

InitStorage ==
  /\ NoSweep /\ merger = NoMerger /\ writer = NoWriter
  /\ formatter = NoFormatter /\ measurement = NoMeasurement
  /\ \E n \in 1 .. MaxStored :
       \E shapes \in [1 .. n -> StoredShapes] : \E kinds \in [1 .. n -> StoredKinds] :
         storage = [s |-> NewStorage,
                    records |-> [r \in 1 .. n |-> StoredRecord(r, shapes[r], kinds[r])],
                    added |-> 0]

\* storage.add(record) with the next record
StorageAdd ==
  /\ storage.s.pc = "open"
  /\ storage.added < Len(storage.records)
  /\ storage' = [storage EXCEPT !.s = storage_add(@, storage.records[storage.added + 1]),
                                !.added = @ + 1]
  /\ UNCHANGED <<sweep, merger, writer, formatter, measurement>>

\* storage.output(name)
StorageOutput ==
  /\ storage.s.pc = "open"
  /\ storage.s.calls < MaxOutputCalls
  /\ \E name \in AskedNames :
       storage' = [storage EXCEPT !.s = output(@, name)]
  /\ UNCHANGED <<sweep, merger, writer, formatter, measurement>>

NextStorage == StorageAdd \/ StorageOutput

SpecStorage == InitStorage /\ [][NextStorage]_vars



\* The records that were added, as they were given.
AddedRecords == SubSeq(storage.records, 1, storage.added)

\* C26: output(name) is read-only and repeatable: the stored records are
\* the records that were added, whatever calls of output were made, and a
\* second call of output for a name returns what the first returned.
C26_OutputReadOnly ==
  /\ storage.s.buffer = AddedRecords
  /\ \A name \in AskedNames :
       output(output(storage.s, name), name).result = output(storage.s, name).result

\* The values of label k in the records, in the order of the records, a
\* list value giving its elements.
RECURSIVE ValuesInOrder(_, _)
ValuesInOrder(recs, k) ==
  IF recs = <<>> THEN <<>>
  ELSE make_list(DictGet(DictGet(recs[1].v, k).v, "value")) \o ValuesInOrder(Tail(recs), k)

\* The result is the merge of the records that hold name: it holds the
\* labels of these records and no other, and under every label the unit of
\* the last record with the label and the values of the records with the
\* label in insertion order (the value as it is where one record has it).
IsMergeOf(result, name, recs) ==
  LET with == SelectSeq(recs, LAMBDA r : DictHas(r.v, name))
      labels == {k \in StorageLabels : \E i \in 1 .. Len(with) : DictHas(with[i].v, k)}
  IN /\ result.t = "dict"
     /\ Len(result.v) = Cardinality(labels)
     /\ \A k \in labels :
          /\ DictHas(result.v, k)
          /\ LET holders == SelectSeq(with, LAMBDA r : DictHas(r.v, k))
                 e == DictGet(result.v, k).v
             IN /\ {e[i].k : i \in 1 .. Len(e)} = {"unit", "value"}
                /\ DictGet(e, "unit") = DictGet(DictGet(holders[Len(holders)].v, k).v, "unit")
                /\ DictGet(e, "value") =
                     IF Len(holders) = 1
                     THEN DictGet(DictGet(holders[1].v, k).v, "value")
                     ELSE List(ValuesInOrder(holders, k))

\* A step that is a call of output.
OutputStep == storage'.s.calls = storage.s.calls + 1

\* C27: output(name) raises ValueError for a label that no added record
\* holds, and for another label returns the merge of exactly the added
\* records that hold the label, every value list in insertion order.
C27_OutputOfLabel ==
  [][OutputStep =>
       IF \E i \in 1 .. Len(AddedRecords) : DictHas(AddedRecords[i].v, storage'.s.name)
       THEN IsMergeOf(storage'.s.result, storage'.s.name, AddedRecords)
       ELSE storage'.s.result = Raise("ValueError")]_vars



(***************************************************************************)
(* Measurement (src/pysweep/measurement.py).  run() is followed from call  *)
(* to call: the check of _has_run and the station and namespace given to   *)
(* the sweep object, the setup functions and the snapshot of the station,  *)
(* one record of the sweep handed to the storage, and finalize and the     *)
(* cleanup functions.  Every call is written to the log, next to the set   *)
(* calls, hook calls and records of the sweep object.  The storage is the  *)
(* object given as data_storage, or the default one that line 74 makes.    *)
(* ChainSweep is not part of the sources at hand: ChainSweep([so]) runs    *)
(* its one child to exhaustion, as the chain of a call does.               *)
(***************************************************************************)
\* Most calls of run() on one Measurement, most setup (and cleanup)
\* functions, and the latest set call or hook call that raises.
MaxRuns == 2
MaxFunctions == 2
MaxFail == 2

\* Measurement(setup, cleanup, so): ChainSweep([so]) with so a sweep, a
\* nested sweep or a zipped sweep.
Measured(name, child, child_kind, grandchildren) ==
  [name |-> name, root |-> 5,
   kind |-> [o \in Nodes |->
               IF o = 5 THEN "chain"
               ELSE IF o = child THEN child_kind
               ELSE IF \E i \in 1 .. Len(grandchildren) : grandchildren[i] = o THEN "param"
               ELSE "unused"],
   children |-> [NoChildren EXCEPT ![5] = <<child>>, ![child] = grandchildren]]

MeasuredShapes ==
  { Measured("M_P", 1, "param", <<>>),
    Measured("M_N", 4, "nest", <<1, 2>>),
    Measured("M_Z", 4, "zip", <<1, 2>>) }

\* The set call or hook call that raises: none, the n-th set call of the
\* run, or the n-th call of a measurement function.
Failures ==
  {[type |-> "none", n |-> 0]} \cup
  {[type |-> t, n |-> n] : t \in {"set", "hook"}, n \in 1 .. MaxFail}

\* The namespace that run() makes, line 81.
RunNamespace == 1

\* Measurement.__init__
NewMeasurement(station, functions, fail) ==
  [pc |-> "new", has_run |-> FALSE, station |-> station, functions |-> functions,
   fail |-> fail, runs |-> 0, error |-> ""]

InitMeasurement ==
  /\ \E sh \in MeasuredShapes :
       /\ shape = sh.name /\ root = sh.root /\ kind = sh.kind /\ children = sh.children
       /\ \E n \in 0 .. MaxLen :
            points = [o \in Nodes |-> IF sh.kind[o] = "param" THEN PointList(o, n) ELSE <<>>]
       /\ so = [o \in Nodes |-> InitObject(sh, o)]
       /\ measure_functions \in
            {NoHooks} \cup
            { [NoHooks EXCEPT ![o][h] = << [label |-> "m"] >>] :
                o \in Used(sh), h \in HookNames }
  /\ log = <<>> /\ serial = 0 /\ pc = "init"
  /\ merger = NoMerger /\ writer = NoWriter /\ formatter = NoFormatter
  /\ storage = NoStorage
  /\ \E station \in {None, 1}, functions \in 1 .. MaxFunctions, fail \in Failures :
       measurement = NewMeasurement(station, functions, fail)

\* The calls of the functions of a list with the station and the namespace.
FunctionCalls(type, n, station) ==
  [i \in 1 .. n |-> [type |-> type, i |-> i, st |-> station, ns |-> RunNamespace]]

\* Variant: run() does not look at _has_run.
AlreadyRun_never(m) == FALSE

\* `if self._has_run`, line 76
AlreadyRun(m) == m.has_run

\* run(), lines 74-84: a Measurement that has run raises RuntimeError, one
\* that has not gives its sweep object the station and the namespace.
MRun ==
  /\ measurement.pc \in {"new", "returned", "raised"}
  /\ measurement.runs < MaxRuns
  /\ IF AlreadyRun(measurement)
     THEN /\ log' = log \o << [type |-> "run"], [type |-> "raise", name |-> "RuntimeError"] >>
          /\ measurement' = [measurement EXCEPT !.pc = "raised", !.runs = @ + 1,
                                                !.error = "RuntimeError"]
          /\ so' = so
     ELSE /\ log' = Append(log, [type |-> "run"])
          /\ measurement' = [measurement EXCEPT !.pc = "setup", !.runs = @ + 1,
                                                !.has_run = TRUE, !.error = ""]
          /\ so' = set_namespace(root, RunNamespace,
                                 set_station(root, measurement.station,
                                             [so |-> so, log |-> log, serial |-> serial])).so
  /\ UNCHANGED <<shape, root, kind, children, points, measure_functions, serial, pc,
                 merger, writer, formatter, storage>>

\* run(), lines 86-91: the setup functions, the snapshot of the station
\* given to the storage, and iter(sweep_object).  None has no snapshot().
MSetup ==
  /\ measurement.pc = "setup"
  /\ LET setups == FunctionCalls("setup", measurement.functions, measurement.station)
     IN IF measurement.station = None
        THEN /\ log' = log \o setups \o << [type |-> "raise", name |-> "AttributeError"] >>
             /\ measurement' = [measurement EXCEPT !.pc = "raised",
                                                   !.error = "AttributeError"]
             /\ so' = so
        ELSE /\ log' = log \o setups \o << [type |-> "save_json_snapshot"] >>
             /\ measurement' = [measurement EXCEPT !.pc = "sweep"]
             /\ so' = IterSO(root, [so |-> so, log |-> log, serial |-> serial]).so
  /\ UNCHANGED <<shape, root, kind, children, points, measure_functions, serial, pc,
                 merger, writer, formatter, storage>>

\* Variant: no call raises.
RaisedAt_nowhere(fail, old, new) == {}

\* The places of the new entries of the log at which the call that raises
\* is made.
RaisedAt(fail, old, new) ==
  {j \in Len(old) + 1 .. Len(new) :
     \/ /\ fail.type = "set" /\ new[j].type = "set"
        /\ Cardinality({i \in 1 .. j : new[i].type = "set"}) = fail.n
     \/ /\ fail.type = "hook" /\ new[j].type = "hook"
        /\ new[j].serial = fail.n}

\* run(), lines 91-92: the next record of the sweep object is added to the
\* storage.  An exception of a set call or of a measurement function leaves
\* the generators and run(): nothing of sweep_object.py and of run() catches
\* it.
MPull ==
  /\ measurement.pc = "sweep"
  /\ LET r == NextSO(root, [so |-> so, log |-> log, serial |-> serial])
         raised == RaisedAt(measurement.fail, log, r.S.log)
     IN IF raised # {}
        THEN /\ log' = Append(SubSeq(r.S.log, 1, MinOf(raised)),
                              [type |-> "raise", name |-> "Exception"])
             /\ so' = [so EXCEPT ![root].hk = "done"]
             /\ serial' = serial
             /\ measurement' = [measurement EXCEPT !.pc = "raised", !.error = "Exception"]
        ELSE /\ so' = r.S.so
             /\ serial' = r.S.serial
             /\ IF r.stop
                THEN /\ log' = r.S.log
                     /\ measurement' = [measurement EXCEPT !.pc = "end"]
                ELSE /\ log' = r.S.log \o << [type |-> "yield", rec |-> r.msg,
                                              at |-> r.S.so[root].hk],
                                             [type |-> "add", rec |-> r.msg] >>
                     /\ measurement' = measurement
  /\ UNCHANGED <<shape, root, kind, children, points, measure_functions, pc,
                 merger, writer, formatter, storage>>

\* run(), lines 94-101: finalize, the cleanup functions, and the namespace
\* of the sweep object set to None.
MFinish ==
  /\ measurement.pc = "end"
  /\ log' = log \o << [type |-> "finalize"] >>
                \o FunctionCalls("cleanup", measurement.functions, measurement.station)
  /\ so' = set_namespace(root, None, [so |-> so, log |-> log, serial |-> serial]).so
  /\ measurement' = [measurement EXCEPT !.pc = "returned"]
  /\ UNCHANGED <<shape, root, kind, children, points, measure_functions, serial, pc,
                 merger, writer, formatter, storage>>

NextMeasurement == MRun \/ MSetup \/ MPull \/ MFinish

SpecMeasurement == InitMeasurement /\ [][NextMeasurement]_vars



(***************************************************************************)
(* Claims about Measurement.run.                                           *)
(***************************************************************************)
EventsAt(type) == {k \in 1 .. Len(log) : log[k].type = type}
RecordsOf(type) ==
  LET events == SelectSeq(log, LAMBDA e : e.type = type)
  IN [i \in 1 .. Len(events) |-> events[i].rec]

\* The first call of run() has ended, by a return or by an exception.
FirstRunOver == measurement.runs = 1 /\ measurement.pc \in {"returned", "raised"}

\* C28: a run in which no set call and no hook raises performs every setup
\* function, then the sweep, every yielded record given to storage.add once
\* and in yield order, then storage.finalize(), then every cleanup
\* function; no set call is made before the last setup function or after
\* the first cleanup function.
C28_RunOrder ==
  (FirstRunOver /\ measurement.fail.type = "none") =>
    /\ Cardinality(EventsAt("setup")) = measurement.functions
    /\ Cardinality(EventsAt("cleanup")) = measurement.functions
    /\ Cardinality(EventsAt("finalize")) = 1
    /\ RecordsOf("add") = RecordsOf("yield")
    /\ \A k \in EventsAt("yield") : k < Len(log) /\ log[k + 1].type = "add"
    /\ \A s \in EventsAt("setup") :
         \A k \in EventsAt("set") \cup EventsAt("hook") \cup EventsAt("add") : s < k
    /\ \A f \in EventsAt("finalize") :
         /\ \A k \in EventsAt("set") \cup EventsAt("hook") \cup EventsAt("add") : k < f
         /\ \A c \in EventsAt("cleanup") : f < c

FailedCallAt ==
  {k \in 1 .. Len(log) :
     \/ /\ measurement.fail.type = "set" /\ log[k].type = "set"
        /\ Cardinality({i \in 1 .. k : log[i].type = "set"}) = measurement.fail.n
     \/ /\ measurement.fail.type = "hook" /\ log[k].type = "hook"
        /\ log[k].serial = measurement.fail.n}

\* C30: the exception of a set call or of a hook leaves run(): after the
\* call the log holds the exception and then no set call, no hook call, no
\* add, no finalize and no cleanup call, but at most calls of run() that
\* raise.
C30_Propagates ==
  \A k \in FailedCallAt :
    /\ k < Len(log)
    /\ log[k + 1].type = "raise" /\ log[k + 1].name = "Exception"
    /\ \A j \in k + 2 .. Len(log) : log[j].type \in {"run", "raise"}

\* The second set call raised after the first record was added.
C30_Witness ==
  /\ measurement.fail = [type |-> "set", n |-> 2]
  /\ measurement.error = "Exception"
  /\ Cardinality(EventsAt("add")) = 1
  /\ Cardinality(EventsAt("set")) = 2
  /\ EventsAt("finalize") = {} /\ EventsAt("cleanup") = {}


(***************************************************************************)
(* Records of blocks: every record holds the flagged label x and the label *)
(* z, and may hold the label w; the value of a label is a scalar or a list *)
(* of 0 .. MaxBlock numbers, the unit of a label differs from record to    *)
(* record, and every record lists its keys in an order of its own.  The    *)
(* value at place j of label l in record r is known from its number.       *)
(***************************************************************************)
MaxBlock == 2

ScalarBlock == [t |-> "scalar", n |-> 1]
AbsentBlock == [t |-> "absent", n |-> 0]
ListBlock(n) == [t |-> "list", n |-> n]
BlockLens == {ScalarBlock} \cup {ListBlock(n) : n \in 0 .. MaxBlock}
BlockOrders == { <<"x", "z", "w">>, <<"w", "z", "x">>, <<"x", "z">>, <<"z", "x">> }

BlockShapes ==
  { s \in [x : BlockLens, z : BlockLens, w : BlockLens \cup {AbsentBlock}, order : BlockOrders] :
      InSeq(s.order, "w") <=> s.w # AbsentBlock }

\* the first record holds one x and one z or a block of z
FirstShapes ==
  { s \in BlockShapes : s.x = ScalarBlock /\ s.z \in {ScalarBlock, ListBlock(MaxBlock)}
                          /\ s.w \in {ScalarBlock, AbsentBlock} }

BlockBase(label) == CASE label = "x" -> 0 [] label = "z" -> 400 [] OTHER -> 800
BlockValue(label, r, j) == BlockBase(label) + 10 * r + j
UnitSuffix == <<"1", "2">>
UnitAt(label, r) == Str(label \o UnitSuffix[r])

BlockEntry(label, r, len) ==
  Dict(<< Item("unit", UnitAt(label, r)),
          Item("value", IF len.t = "scalar" THEN Num(BlockValue(label, r, 0))
                        ELSE List([j \in 1 .. len.n |-> Num(BlockValue(label, r, j - 1))])) >>
       \o (IF label = "x" THEN <<Item("independent_parameter", Bool(TRUE))>> ELSE <<>>))

BlockRecord(r, s) ==
  Dict([c \in 1 .. Len(s.order) |-> Item(s.order[c], BlockEntry(s.order[c], r, s[s.order[c]]))])

InitBlocks ==
  /\ NoSweep /\ merger = NoMerger
  /\ formatter = NoFormatter /\ storage = NoStorage /\ measurement = NoMeasurement
  /\ \E s1 \in FirstShapes, s2 \in BlockShapes, max_buffer_size \in 1 .. MaxThreshold :
       writer = [w |-> NewWriter(max_buffer_size, <<>>),
                 records |-> <<BlockRecord(1, s1), BlockRecord(2, s2)>>,
                 added |-> 0,
                 shapes |-> <<s1, s2>>]

SpecBlocks == InitBlocks /\ [][NextWriter]_vars


(***************************************************************************)
(* Claims about the buffer of the SpyviewWriter under records of blocks.   *)
(***************************************************************************)

\* The values of a label in a record, a scalar as a list of one.
RawValues(record, label) == make_list(DictGet(DictGet(record.v, label).v, "value"))

\* The length of the longest block of a record.
LongestBlock(record) ==
  MaxOf({Len(RawValues(record, record.v[i].k)) : i \in 1 .. Len(record.v)})

\* The values of a label in a record, a single value repeated to the length
\* of the longest block of the record.
StretchedValues(record, label) ==
  IF Len(RawValues(record, label)) = 1
  THEN [j \in 1 .. LongestBlock(record) |-> RawValues(record, label)[1]]
  ELSE RawValues(record, label)

\* The block lengths add accepts: not more than two, and the smaller one 1
\* when the larger is above 1.
BlockSizes(record) == {Len(RawValues(record, record.v[i].k)) : i \in 1 .. Len(record.v)}
CodeAccepts(record) ==
  /\ Cardinality(BlockSizes(record)) <= 2
  /\ MinOf(BlockSizes(record)) = 1 \/ MaxOf(BlockSizes(record)) <= 1

\* The records added so far that add accepted, in arrival order.
Accepted ==
  SelectSeq([i \in 1 .. writer.added |-> writer.records[i]], CodeAccepts)

RECURSIVE ConcatRaw(_, _, _), ConcatStretched(_, _, _)
ConcatRaw(records, label, k) ==
  IF k = 0 THEN <<>> ELSE ConcatRaw(records, label, k - 1) \o RawValues(records[k], label)
ConcatStretched(records, label, k) ==
  IF k = 0 THEN <<>>
  ELSE ConcatStretched(records, label, k - 1) \o StretchedValues(records[k], label)

\* The labels that every accepted record holds.
LabelsOfAll ==
  {label \in {"x", "z", "w"} :
     /\ Accepted # <<>>
     /\ \A i \in 1 .. Len(Accepted) : DictHas(Accepted[i].v, label)}

UnitOfLast(label) == DictGet(DictGet(Accepted[Len(Accepted)].v, label).v, "unit")
BufferUnit(label) == DictGet(DictGet(writer.w.buffer, label).v, "unit")

\* C31 as stated: the values of a label in the buffer are the values of the
\* records in arrival order, a scalar counted as one value, and its unit is
\* that of the last record.
C31_Original ==
  \A label \in LabelsOfAll :
    /\ ValuesOf(writer.w.buffer, label) = ConcatRaw(Accepted, label, Len(Accepted))
    /\ BufferUnit(label) = UnitOfLast(label)

\* C31: the values of a label in the buffer are the values of the accepted
\* records in arrival order, where a record with a block of more than one
\* value counts each of its single values once per row of that block, and the
\* unit of the label is that of the last accepted record.
C31_BufferOfLabel ==
  \A label \in LabelsOfAll :
    /\ ValuesOf(writer.w.buffer, label) = ConcatStretched(Accepted, label, Len(Accepted))
    /\ BufferUnit(label) = UnitOfLast(label)

\* Two records were accepted, the second with one x beside a block of two z:
\* the buffer holds x of the second record twice.
C31_Witness ==
  /\ writer.added = 2 /\ Len(Accepted) = 2
  /\ Len(RawValues(writer.records[2], "x")) = 1
  /\ Len(RawValues(writer.records[2], "z")) = 2
  /\ Len(RawValues(writer.records[1], "z")) = 1
  /\ ValuesOf(writer.w.buffer, "x")
       = <<Num(BlockValue("x", 1, 0)), Num(BlockValue("x", 2, 0)), Num(BlockValue("x", 2, 0))>>
  /\ BufferUnit("x") = UnitAt("x", 2)


(***************************************************************************)
(* What a write passes on: the writer and the formatter under the same     *)
(* records.                                                                *)
(***************************************************************************)

\* The rows a sequence of lines holds.
RowsOf(lines) == {DataLines(lines)[i] : i \in 1 .. Len(DataLines(lines))}

\* The rows that the earlier calls of the writer function were given.
EarlierRows == UNION {RowsOf(writer.w.outputs[o]) : o \in 1 .. Len(writer.w.outputs)}

\* No row stands twice in the lines.
NoRowTwice(lines) == Cardinality(RowsOf(lines)) = Len(DataLines(lines))

\* C32 as stated: every write passes only rows that no earlier write has
\* passed and leaves the buffer empty.
C32_Original ==
  [][/\ WriterWrites =>
          /\ RowsOf(SinkOf(writer'.w)) \cap EarlierRows = {}
          /\ writer'.w.buffer = <<>>
     /\ FormatterWrites =>
          /\ RowsOf(formatter'.f.file) \ RowsOf(formatter.f.file) # {}
          /\ NoRowTwice(formatter'.f.file)
          /\ formatter'.f.buffer = <<>>]_vars

\* C32: a write of SpyviewFormatter appends to the file the rows of the
\* records added since its last write, none of which is in the file, and
\* empties the buffer, so no row is appended twice.  A write of SpyviewWriter
\* gives the writer function all the rows added so far, those of the earlier
\* writes again, and keeps the buffer; what it was given last holds every row
\* once.
C32_Writes ==
  [][/\ WriterWrites =>
          /\ EarlierRows \subseteq RowsOf(SinkOf(writer'.w))
          /\ Len(DataLines(SinkOf(writer'.w))) = writer'.added
          /\ NoRowTwice(SinkOf(writer'.w))
          /\ BufferedRows(writer'.w) = writer'.added
     /\ FormatterWrites =>
          /\ DataLines(formatter'.f.file)
               = DataLines(formatter.f.file)
                   \o SubSeq(DataLines(formatter'.f.file),
                             Len(DataLines(formatter.f.file)) + 1,
                             Len(DataLines(formatter'.f.file)))
          /\ Len(DataLines(formatter'.f.file))
               = Len(DataLines(formatter.f.file))
                   + (IF formatter'.added = formatter.added
                      THEN formatter.f.buffer_size_counter
                      ELSE formatter.f.buffer_size_counter + 1)
          /\ NoRowTwice(formatter'.f.file)
          /\ formatter'.f.buffer = <<>>
          /\ formatter'.f.buffer_size_counter = 0]_vars

\* Under threshold 2 both were given four records: the writer function got
\* two rows and then four, the file got two rows twice, and only the buffer
\* of the formatter is empty.
C32_Witness ==
  /\ writer.w.max_buffer_size = 2
  /\ writer.added = 4 /\ Len(writer.w.outputs) = 2
  /\ Len(DataLines(writer.w.outputs[1])) = 2
  /\ Len(DataLines(writer.w.outputs[2])) = 4
  /\ BufferedRows(writer.w) = 4
  /\ formatter.added = 4 /\ formatter.f.writes = 2
  /\ Len(DataLines(formatter.f.file)) = 4
  /\ formatter.f.buffer = <<>>


(***************************************************************************)
(* Rows and the values that have arrived, under a delayed label.           *)
(***************************************************************************)

\* The number of values of a label that the first k records brought.
RECURSIVE Arrived(_, _)
Arrived(label, k) ==
  IF k = 0 THEN 0
  ELSE Arrived(label, k - 1)
         + (IF DictHas(writer.records[k].v, label)
            THEN Len(RawValues(writer.records[k], label)) ELSE 0)

\* C33: the rows given to the writer function have a cell for every label of
\* the buffer, and there are no more of them than values have arrived of x, of
\* z and of the delayed y: a row whose y has not arrived is not written.
C33_NoIncompleteRow ==
  [][WriterWrites =>
       LET rows == DataLines(SinkOf(writer'.w))
       IN /\ \A i \in 1 .. Len(rows) : Len(rows[i]) = Len(writer'.w.buffer)
          /\ \A label \in {"x", "y", "z"} : Len(rows) <= Arrived(label, writer'.added)
          /\ \A label \in {"x", "y", "z"} : DictHas(writer'.w.buffer, label)]_vars

\* Under threshold 1, y came for two rows with the second record and the
\* third record is added: two rows are written, the third is held back.
C33_Witness ==
  /\ writer.w.max_buffer_size = 1 /\ writer.batch = 2
  /\ writer.added = 3
  /\ Arrived("x", 3) = 3 /\ Arrived("y", 3) = 2
  /\ Len(writer.w.outputs) = 2
  /\ Len(DataLines(SinkOf(writer.w))) = 2
  /\ \A i \in 1 .. 2 : Len(DataLines(SinkOf(writer.w))[i]) = Len(writer.w.buffer)


\* The block lengths C34 says add accepts: one common length of 1 or more,
\* or length 1 beside one common larger length.
ClaimAccepts(record) ==
  \/ Cardinality(BlockSizes(record)) = 1 /\ MinOf(BlockSizes(record)) >= 1
  \/ Cardinality(BlockSizes(record)) = 2 /\ MinOf(BlockSizes(record)) = 1

\* A step that is a call of add, and the record it is given.
AddStep == writer'.added = writer.added + 1
AddedRecord == writer.records[writer.added + 1]

\* C34: add accepts a record whose blocks have one common length of 1 or
\* more, or length 1 beside one common larger length, repeating the blocks of
\* length 1 to that length, and ends every other record in ValueError with the
\* buffer unchanged.
C34_BlockLengths ==
  [][AddStep =>
       IF ClaimAccepts(AddedRecord)
       THEN /\ writer'.w.error # "ValueError"
            /\ \A i \in 1 .. Len(AddedRecord.v) :
                 LET label == AddedRecord.v[i].k
                     old == IF DictHas(writer.w.buffer, label)
                            THEN ValuesOf(writer.w.buffer, label) ELSE <<>>
                 IN ValuesOf(writer'.w.buffer, label)
                      = old \o StretchedValues(AddedRecord, label)
       ELSE /\ writer'.w.error = "ValueError"
            /\ writer'.w.buffer = writer.w.buffer]_vars


\* The label a cell belongs to, known from its number: the columns that
\* the writer makes, index and empty, hold numbers below 10.
TagOfCell(cell) ==
  CASE cell.str < 10 -> "made"
    [] cell.str < BlockBase("z") -> "x"
    [] cell.str < BlockBase("w") -> "z"
    [] OTHER -> "w"
TagOfAxis(label) == IF label \in {"index", "empty"} THEN "made" ELSE label
ColumnTags(row) == [c \in 1 .. Len(row) |-> TagOfCell(row[c])]

\* The labels z and w in the order in which the accepted records first
\* showed them.
RECURSIVE FirstSeen(_, _)
FirstSeen(records, k) ==
  IF k = 0 THEN <<>>
  ELSE LET seen == FirstSeen(records, k - 1)
       IN seen \o SelectSeq(DictKeys(records[k].v),
                            LAMBDA l : l \in {"z", "w"} /\ ~InSeq(seen, l))

\* C35: in every flush every row begins with the columns of the axes in
\* axis order, and its columns of the dependent labels z and w stand in the
\* order in which the stream first showed them.
C35_ColumnOrder ==
  [][WriterWrites =>
       LET axes == SelectSeq(writer'.w.independent_parameters, LAMBDA l : l # "none")
           rows == DataLines(SinkOf(writer'.w))
       IN \A i \in 1 .. Len(rows) :
            /\ Len(rows[i]) >= Len(axes)
            /\ SubSeq(ColumnTags(rows[i]), 1, Len(axes))
                 = [c \in 1 .. Len(axes) |-> TagOfAxis(axes[c])]
            /\ SelectSeq(ColumnTags(rows[i]), LAMBDA t : t \in {"z", "w"})
                 = FirstSeen(Accepted', Len(Accepted'))]_vars


(***************************************************************************)
(* C36: the after_end functions of a child of a nest that is run to        *)
(* completion are called once per pass over the child, that is once per    *)
(* combination of set points of the children listed after it (the outer    *)
(* ones); after a call no set call of the child follows before a set call  *)
(* of an outer child, and the set calls of the pass of a swept parameter   *)
(* all stand between the last outer set call and the call.                 *)
(***************************************************************************)
\* The parameters set by a sweep object.
RECURSIVE ParamsOf(_)
ParamsOf(o) ==
  IF kind[o] = "param" THEN {o}
  ELSE UNION {ParamsOf(children[o][i]) : i \in 1 .. Len(children[o])}

SetsOf(objects) == UNION {SetAt(p) : p \in UNION {ParamsOf(o) : o \in objects}}

\* The children of the nest o listed after its c-th child.
OuterChildren(o, c) == {children[o][i] : i \in c + 1 .. Len(children[o])}

\* The number of passes over the c-th child of the nest o.
RECURSIVE PassesOf(_, _)
PassesOf(o, c) ==
  IF c >= Len(children[o]) THEN 1
  ELSE SetPoints(children[o][c + 1]) * PassesOf(o, c + 1)

C36_AfterEndPerPass ==
  (kind[root] = "nest" /\ pc = "done") =>
    \A c \in 1 .. Len(children[root]) :
      LET o == children[root][c]
          E == HookAt(o, "after_end")
          own == SetsOf({o})
          outer == SetsOf(OuterChildren(root, c))
      IN measure_functions[o]["after_end"] # <<>> =>
           /\ Cardinality(E) = PassesOf(root, c)
           /\ \A k \in E :
                /\ \A j \in own : j > k => \E u \in outer : k < u /\ u < j
                /\ kind[o] = "param" =>
                     LET start == IF \E u \in outer : u < k
                                  THEN MaxOf({u \in outer : u < k}) ELSE 0
                     IN Cardinality({j \in own : start < j /\ j < k}) = Len(points[o])

\* nested_sweep(p1, p2, p3) with two points each and an after_end function
\* on p1: four passes over p1, four calls.
C36_Witness ==
  /\ shape = "N3" /\ pc = "done"
  /\ measure_functions[1]["after_end"] # <<>>
  /\ \A p \in ParamNodes : Len(points[p]) = 2
  /\ Cardinality(HookAt(1, "after_end")) = 4
  /\ \A k \in HookAt(1, "after_end") :
       Cardinality({j \in SetAt(1) : j < k}) \in {2, 4, 6, 8}


(***************************************************************************)
(* C37: in a zip of swept parameters of any lengths every child has had as *)
(* many set calls as the zip has yielded records.                          *)
(***************************************************************************)
C37_ZipSetsAreRecords ==
  shape \in {"Z2", "Z3"} =>
    \A i \in 1 .. Len(children[root]) :
      Cardinality(SetAt(children[root][i])) = Count_loop


(***************************************************************************)
(* C38: when a zip of swept parameters of equal lengths has been iterated  *)
(* to completion, the after_end functions of every child have been called  *)
(* exactly once.                                                           *)
(***************************************************************************)
EqualLengths ==
  \A i, j \in 1 .. Len(children[root]) :
    Len(points[children[root][i]]) = Len(points[children[root][j]])

C38_ZipAfterEndOfAll ==
  (shape \in {"Z2", "Z3"} /\ pc = "done" /\ EqualLengths) =>
    \A i \in 1 .. Len(children[root]) :
      measure_functions[children[root][i]]["after_end"] # <<>> =>
        Cardinality(HookAt(children[root][i], "after_end")) = 1


(***************************************************************************)
(* C39: DictMerge.merge leaves its inputs unchanged: when merge(records)   *)
(* has returned, every record given to it, every nested record and every   *)
(* value list inside them has the content it had before the call.          *)
(***************************************************************************)
C39_InputsUnchanged ==
  (merger.pc = "merged" /\ merger.result.t # "raise") => merger.left = merger.dicts

\* The merge with lists as objects returns what the merge on values returns.
InPlaceSameResult ==
  merger.pc = "merged" =>
    Strip(merge_in_place(StrategyNamed(merger.strategy), merger.dicts).val) = merger.result


(***************************************************************************)
(* C40: no added record is lost.  After finalize the data rows written to  *)
(* the sink are as many as the rows that were added, also when exactly one *)
(* row is in the buffer when finalize is called.  Every record of the grid *)
(* is one row; the sink of SpyviewWriter is what its writer function was   *)
(* given last, that of SpyviewFormatter is its file.                       *)
(***************************************************************************)
\* No add of the formatter raises when a label is flagged and the threshold
\* is two or more (no add of the writer raises at all).
AddsReturn == writer.flags # {} /\ formatter.f.max_buffer_size > 1

C40_NoRecordLost ==
  /\ writer.w.pc = "final" => Len(DataLines(SinkOf(writer.w))) = writer.added
  /\ (formatter.f.pc = "final" /\ AddsReturn) =>
       Len(DataLines(formatter.f.file)) = formatter.added

AddsReturnHolds ==
  (AddsReturn /\ formatter.f.pc = "open") => formatter.f.error = ""
====
